---- MODULE Spec2Model ----
(***************************************************************************)
(* A model of hub-api: the rebuild of the plugin store (build.py, load_db) *)
(* and the read path of the hub client (hub_api/client.py).                *)
(*                                                                         *)
(* Strings are TLA+ strings; an f-string is a concatenation with \o, so    *)
(* that two different (plugin, variant) pairs whose names contain dots can *)
(* synthesize the same id, as they do in the program.                      *)
(***************************************************************************)
EXTENDS Integers, Sequences, FiniteSets, TLC

VARIABLES
    tree,              \* input: the variant documents, (type, plugin, variant) -> document
    default_variants,  \* input: default_variants.yml, (type, plugin) -> variant name or None
    maintainers,       \* input: maintainers.yml, the set of maintainer ids
    pc,                \* where load_db / main stands
    type_idx,          \* load_db: index of plugin_type in PluginTypeEnum
    plugin_name,       \* load_db: the plugin directory being walked
    todo_plugins,      \* load_db: plugin directories of this type not yet walked
    todo_variants,     \* load_db: documents of this plugin not yet read
    tx,                \* the rows inserted in the open transaction
    db,                \* the committed store, what a reader sees
    errors,            \* LoadResult.errors
    response           \* the last call of the hub client and what it returned

vars == <<tree, default_variants, maintainers, pc, type_idx, plugin_name,
          todo_plugins, todo_variants, tx, db, errors, response>>

\* ------------------------------------------------------------------ bounds

MaxDocs == 2           \* documents in the input tree

\* ------------------------------------------------------------- basic values

None == "<None>"

\* str(x) inside an f-string
Format(x) == IF x = None THEN "None" ELSE x

PluginTypeEnum ==
    <<"extractors", "loaders", "transformers", "utilities",
      "transforms", "orchestrators", "mappers", "files">>

PluginTypes == {PluginTypeEnum[i] : i \in 1..Len(PluginTypeEnum)}

ExtractorCapabilityEnum ==
    {"properties", "catalog", "discover", "state", "about", "stream-maps",
     "schema-flattening", "activate-version", "batch", "test", "log-based",
     "structured-logging"}

LoaderCapabilityEnum ==
    {"about", "activate-version", "datatype-failsafe", "hard-delete",
     "schema-flattening", "soft-delete", "stream-maps", "validate-records",
     "structured-logging"}

MapperCapabilityEnum == {"stream-maps", "structured-logging"}

\* ------------------------------------------------------------ input universe

\* The documents the tree may hold, as (type, plugin directory, file stem),
\* and the plugin directories they lie in.
Slots ==
    {<<"extractors", "a", "c">>, <<"extractors", "a", "b.c">>,
     <<"extractors", "a.b", "c">>, <<"utilities", "a", "c">>}
PluginDirs == { <<s[1], s[2]>> : s \in Slots }
MaintainerIds == {"c"}
DefaultVariantChoices == {"c", None}

CapabilityChoices == {<<>>, <<"catalog">>, <<"catalog", "catalog">>, <<"bogus">>}

\* A variant document: the keys its YAML mapping holds, and the values of
\* the keys the model follows.  name, variant and repo are always present.
Docs ==
    { d \in [keys : SUBSET {"namespace", "capabilities"}, capabilities : CapabilityChoices] :
        ("capabilities" \in d.keys) <=> (d.capabilities # <<>>) }

\* definition.get(key, []) and definition.get(key, {}): a list is a sequence, a
\* mapping is the sequence of its items in insertion order, both empty by default.
Get(definition, key) ==
    IF key \in definition.keys THEN definition[key]
    ELSE IF key \in {"capabilities", "keywords", "select", "metadata", "commands",
                     "settings", "settings_group_validation"}
         THEN <<>> ELSE None

PluginsOfType(t, plugin_type) == { s[2] : s \in {u \in DOMAIN t : u[1] = plugin_type} }
VariantsOfPlugin(t, plugin_type, name) ==
    { s[3] : s \in {u \in DOMAIN t : u[1] = plugin_type /\ u[2] = name} }

\* ------------------------------------------------------------------ the store

Tables ==
    {"maintainers", "plugin_variants", "settings", "setting_aliases", "setting_groups",
     "capabilities", "keywords", "selects", "metadata", "commands", "plugins"}

EmptyStore == [t \in Tables |-> <<>>]

\* The primary key of a row: the column id, and for setting_groups the three
\* columns (variant_id, group_id, setting_name).
PrimaryKey(table, row) ==
    IF table = "setting_groups"
    THEN <<row.variant_id, row.group_id, row.setting_name>>
    ELSE row.id

HasKey(rows, table, key) == \E i \in 1..Len(rows) : PrimaryKey(table, rows[i]) = key

\* ---- JSON columns
\* A Python value is [type, repr]; a JSON text is [json, text].  json.dumps
\* knows None, bool, int, str, and the lists and string-keyed dicts of these;
\* it raises TypeError for a datetime.date, which yaml.safe_load makes of an
\* unquoted 2020-01-01.
json_dumps(value) ==
    CASE value.type = "null" -> [raised |-> FALSE, text |-> [json |-> "null", text |-> "null"]]
      [] value.type = "bool" -> [raised |-> FALSE, text |-> [json |-> "bool", text |-> value.repr]]
      [] value.type = "int"  -> [raised |-> FALSE, text |-> [json |-> "number", text |-> value.repr]]
      [] value.type = "str"  -> [raised |-> FALSE, text |-> [json |-> "string", text |-> value.repr]]
      [] value.type = "list" -> [raised |-> FALSE, text |-> [json |-> "array", text |-> value.repr]]
      [] value.type = "dict" -> [raised |-> FALSE, text |-> [json |-> "object", text |-> value.repr]]
      [] OTHER               -> [raised |-> TRUE, text |-> [json |-> "null", text |-> "null"]]

json_loads(text) ==
    CASE text.json = "null"   -> [type |-> "null", repr |-> "null"]
      [] text.json = "bool"   -> [type |-> "bool", repr |-> text.text]
      [] text.json = "number" -> [type |-> "int", repr |-> text.text]
      [] text.json = "string" -> [type |-> "str", repr |-> text.text]
      [] text.json = "array"  -> [type |-> "list", repr |-> text.text]
      [] text.json = "object" -> [type |-> "dict", repr |-> text.text]

\* The column options of a Setting row: NULL, or a list of option dicts
NoOptions == [isnull |-> TRUE, items |-> <<>>]
OptionsList(items) == [isnull |-> FALSE, items |-> items]

\* json.dumps of the list of option dicts, [opt.model_dump() for opt in options]
json_dumps_options(options) ==
    IF \E i \in 1..Len(options) : json_dumps(options[i].value).raised
    THEN [raised |-> TRUE, text |-> <<>>]
    ELSE [raised |-> FALSE,
          text |-> [i \in 1..Len(options) |->
                      [value |-> json_dumps(options[i].value).text,
                       label |-> options[i].label]]]

\* What the JSON type of the column makes of the stored text when a row is read
json_loads_options(text) ==
    [i \in 1..Len(text) |-> [value |-> json_loads(text[i].value), label |-> text[i].label]]

\* sqlite3.register_adapter(list, json.dumps): the parameters of an INSERT that
\* are lists are bound as their JSON text; of the rows of the model, a Setting
\* row carries one, its options.  A table of the store holds its JSON columns
\* as a reader gets them, json.loads of the stored text.
BindParameters(table, row) ==
    IF table = "settings" /\ ~row.options.isnull
    THEN [raised |-> json_dumps_options(row.options.items).raised,
          row |-> [row EXCEPT !.options.items =
                      json_loads_options(json_dumps_options(row.options.items).text)]]
    ELSE [raised |-> FALSE, row |-> row]

\* A table without a primary key: every row is appended.
_insert_row_NoPrimaryKey(connection, table, row) ==
    [ok |-> TRUE, connection |-> [connection EXCEPT ![table] = Append(@, row)]]

\* _insert_row: INSERT INTO table.  Binding a parameter raises what its
\* adapter raises (TypeError), and the PRIMARY KEY constraint rejects a row
\* whose key is already in the table (sqlite3.IntegrityError).
_insert_row(connection, table, row) ==
    IF BindParameters(table, row).raised
    THEN [ok |-> FALSE, connection |-> connection]
    ELSE IF HasKey(connection[table], table, PrimaryKey(table, row))
    THEN [ok |-> FALSE, connection |-> connection]
    ELSE [ok |-> TRUE,
          connection |-> [connection EXCEPT
                            ![table] = Append(@, BindParameters(table, row).row)]]

\* A run of _insert_row calls in program order: the first one that raises ends it,
\* and the rows inserted before it stay in the open transaction.
RECURSIVE InsertAll(_, _)
InsertAll(connection, inserts) ==
    IF inserts = <<>> THEN [ok |-> TRUE, connection |-> connection]
    ELSE LET r == _insert_row(connection, inserts[1].table, inserts[1].row)
         IN  IF r.ok THEN InsertAll(r.connection, Tail(inserts)) ELSE r

RowsOf(store, table) == { store[table][i] : i \in 1..Len(store[table]) }

\* ---- exceptions

NoException == [class |-> "none", base |-> "none", args |-> ""]

ValidationError == [class |-> "ValidationError", base |-> "Exception", args |-> ""]

\* ---- settings

\* Python values of the columns: True, False
PyTrue == "True"
PyFalse == "False"

\* The tags of the PluginSetting union
PluginSettingTags ==
    {"string", "integer", "boolean", "date_iso8601", "email", "password", "oauth",
     "options", "file", "array", "object", "hidden"}

\* DecimalSetting, the class client.py tests for: a _BasePluginSetting whose
\* kind is the literal "decimal", tagged "decimal" in the union.
DecimalSettingTag == "decimal"

\* The JSON types _BasePluginSetting.value admits
ValueTypes == {"str", "dict", "list", "bool", "int", "null"}

SettingRow(variant_id, name, kind, value, sensitive) ==
    [id |-> variant_id \o ".setting_" \o name, variant_id |-> variant_id,
     name |-> name, kind |-> kind, value |-> value, sensitive |-> sensitive,
     options |-> NoOptions]

\* getattr(setting, "kind", None) or "string"
_kind_discriminator(setting) ==
    IF setting.kind = None \/ setting.kind = "" THEN "string" ELSE setting.kind

\* PluginSetting.model_validate(s) of a Setting row: the model of the class the
\* tag selects, holding the row's attributes.  options is a field of
\* OptionsSetting alone, a list of Option models; the attribute None is not a
\* list.
PluginSetting_model_validate(setting) ==
    IF /\ _kind_discriminator(setting) \in PluginSettingTags \cup {DecimalSettingTag}
       /\ setting.value.type \in ValueTypes
       /\ setting.sensitive \in {PyTrue, PyFalse, None}
       /\ _kind_discriminator(setting) = "options" => ~setting.options.isnull
    THEN [raised |-> NoException,
          root |-> [class |-> _kind_discriminator(setting), name |-> setting.name,
                    kind |-> setting.kind, value |-> setting.value,
                    sensitive |-> setting.sensitive, aliases |-> setting.aliases,
                    options |-> IF _kind_discriminator(setting) = "options"
                                THEN setting.options.items ELSE <<>>]]
    ELSE [raised |-> ValidationError, root |-> None]

\* ------------------------------------------------------------- validation

\* <Type>Definition.model_validate(definition): the errors of exc.errors(), none
\* when the document is valid.  namespace is a required field of every type;
\* capabilities is a required list of the type's capability enum for extractors
\* and mappers, an optional one for loaders, and an extra (forbidden) key for
\* the five other types.
CapabilityEnumOf(plugin_type) ==
    CASE plugin_type = "extractors" -> ExtractorCapabilityEnum
      [] plugin_type = "loaders"    -> LoaderCapabilityEnum
      [] plugin_type = "mappers"    -> MapperCapabilityEnum
      [] OTHER                      -> {}

HasCapabilitiesField(plugin_type) == plugin_type \in {"extractors", "loaders", "mappers"}
CapabilitiesRequired(plugin_type) == plugin_type \in {"extractors", "mappers"}

RECURSIVE EnumErrors(_, _, _)
EnumErrors(items, enum, i) ==
    IF i > Len(items) THEN <<>>
    ELSE (IF items[i] \in enum THEN <<>>
          ELSE <<[loc |-> "capabilities", index |-> i, type |-> "enum"]>>)
         \o EnumErrors(items, enum, i + 1)

\* A setting of a document: a key that is absent takes the default of its
\* field, an empty list for options.
SettingOfDocument(setting) ==
    IF setting.options.isnull THEN [setting EXCEPT !.options = OptionsList(<<>>)] ELSE setting

RECURSIVE SettingErrors(_, _)
SettingErrors(settings, i) ==
    IF i > Len(settings) THEN <<>>
    ELSE (IF PluginSetting_model_validate(SettingOfDocument(settings[i])).raised = NoException
          THEN <<>>
          ELSE <<[loc |-> "settings", index |-> i, type |-> "invalid"]>>)
         \o SettingErrors(settings, i + 1)

\* commands: dict[str, str | Command]; args is the required field of Command
RECURSIVE CommandErrors(_, _)
CommandErrors(commands, i) ==
    IF i > Len(commands) THEN <<>>
    ELSE (IF commands[i].form = "dict" /\ commands[i].args = None
          THEN <<[loc |-> "commands", index |-> i, type |-> "missing"]>>
          ELSE <<>>)
         \o CommandErrors(commands, i + 1)

\* select and metadata are fields of Extractor alone, extra keys elsewhere
ExtractorKeyErrors(plugin_type, definition) ==
    IF plugin_type = "extractors" THEN <<>>
    ELSE (IF "metadata" \in definition.keys
          THEN <<[loc |-> "metadata", index |-> 0, type |-> "extra_forbidden"]>> ELSE <<>>)
         \o
         (IF "select" \in definition.keys
          THEN <<[loc |-> "select", index |-> 0, type |-> "extra_forbidden"]>> ELSE <<>>)

model_validate(plugin_type, definition) ==
    (IF "namespace" \in definition.keys THEN <<>>
     ELSE <<[loc |-> "namespace", index |-> 0, type |-> "missing"]>>)
    \o SettingErrors(Get(definition, "settings"), 1)
    \o CommandErrors(Get(definition, "commands"), 1)
    \o
    (IF HasCapabilitiesField(plugin_type)
     THEN IF "capabilities" \in definition.keys
          THEN EnumErrors(definition.capabilities, CapabilityEnumOf(plugin_type), 1)
          ELSE IF CapabilitiesRequired(plugin_type)
               THEN <<[loc |-> "capabilities", index |-> 0, type |-> "missing"]>>
               ELSE <<>>
     ELSE IF "capabilities" \in definition.keys
          THEN <<[loc |-> "capabilities", index |-> 0, type |-> "extra_forbidden"]>>
          ELSE <<>>)
    \o ExtractorKeyErrors(plugin_type, definition)

IsValid(plugin_type, definition) == model_validate(plugin_type, definition) = <<>>

\* ------------------------------------------------------------------ load_db

RECURSIVE Flatten(_)
Flatten(seqs) == IF seqs = <<>> THEN <<>> ELSE seqs[1] \o Flatten(Tail(seqs))

RECURSIVE SetToSeq(_)
SetToSeq(S) == IF S = {} THEN <<>> ELSE LET x == CHOOSE y \in S : TRUE IN <<x>> \o SetToSeq(S \ {x})

PluginId(plugin_type, name) == plugin_type \o "." \o name
VariantId(plugin_id, variant) == plugin_id \o "." \o Format(variant)

MaintainerRow(maintainer_id) == [id |-> maintainer_id]

VariantRow(plugin_id, variant, logo_url) ==
    [id |-> VariantId(plugin_id, variant), plugin_id |-> plugin_id, name |-> variant,
     logo_url |-> logo_url]

CapabilityRow(variant_id, capability) ==
    [id |-> variant_id \o ".capability_" \o capability,
     variant_id |-> variant_id, name |-> capability]

\* _build_setting: the Setting row of a validated setting, value as the JSON
\* column gives back json.dumps(value), options the list of option dicts of an
\* OptionsSetting
_build_setting(variant_id, setting) ==
    [SettingRow(variant_id, setting.name, setting.kind,
                IF setting.value.type = "null" THEN setting.value
                ELSE json_loads(json_dumps(setting.value).text),
                setting.sensitive)
       EXCEPT !.options = IF setting.class = "options"
                          THEN OptionsList(setting.options) ELSE NoOptions]

SettingAliasRow(setting_id, alias) ==
    [id |-> setting_id \o ".alias_" \o alias, setting_id |-> setting_id, name |-> alias]

RequiredSettingRow(variant_id, setting_name, group_idx) ==
    [variant_id |-> variant_id, setting_id |-> variant_id \o ".setting_" \o setting_name,
     setting_name |-> setting_name, group_id |-> group_idx]

KeywordRow(variant_id, keyword) ==
    [id |-> variant_id \o ".keyword_" \o keyword, variant_id |-> variant_id, name |-> keyword]

SelectRow(variant_id, i, select) ==
    [id |-> variant_id \o ".select_" \o ToString(i), variant_id |-> variant_id,
     expression |-> select]

MetadataRow(variant_id, i, key, metadata) ==
    [id |-> variant_id \o ".metadata_" \o ToString(i), variant_id |-> variant_id,
     key |-> key, value |-> json_loads(json_dumps(metadata).text)]

\* The row of a command: of the bare string only args, the other columns NULL
CommandRow(variant_id, command) ==
    [id |-> variant_id \o ".command_" \o command.name, variant_id |-> variant_id,
     name |-> command.name, args |-> command.args,
     description |-> IF command.form = "str" THEN None ELSE command.description,
     executable |-> IF command.form = "str" THEN None ELSE command.executable]

PluginRow(plugin_type, name, default_variant) ==
    [id |-> PluginId(plugin_type, name),
     default_variant_id |-> VariantId(PluginId(plugin_type, name), default_variant),
     plugin_type |-> plugin_type, name |-> name]

\* The _insert_row calls load_db makes for one valid document, in program order.
VariantInserts(plugin_type, name, variant, definition) ==
    LET variant_id == VariantId(PluginId(plugin_type, name), variant)
        settings == Get(definition, "settings")
        groups == Get(definition, "settings_group_validation")
        caps == Get(definition, "capabilities")
        keywords == Get(definition, "keywords")
        selects == Get(definition, "select")
        metadata == Get(definition, "metadata")
        commands == Get(definition, "commands")
        SettingInserts(setting, aliases) ==
            <<[table |-> "settings", row |-> _build_setting(variant_id, setting)]>>
            \o [j \in 1..Len(aliases) |->
                   [table |-> "setting_aliases",
                    row |-> SettingAliasRow(_build_setting(variant_id, setting).id,
                                            aliases[j])]]
    IN  <<[table |-> "plugin_variants", row |-> VariantRow(PluginId(plugin_type, name), variant,
                                  Get(definition, "logo_url"))]>>
        \o Flatten([i \in 1..Len(settings) |->
               SettingInserts(PluginSetting_model_validate(SettingOfDocument(settings[i])).root,
                              settings[i].aliases)])
        \o Flatten([g \in 1..Len(groups) |->
               [j \in 1..Len(groups[g]) |->
                  [table |-> "setting_groups",
                   row |-> RequiredSettingRow(variant_id, groups[g][j], g - 1)]]])
        \o [i \in 1..Len(caps) |->
               [table |-> "capabilities", row |-> CapabilityRow(variant_id, caps[i])]]
        \o [i \in 1..Len(keywords) |->
               [table |-> "keywords", row |-> KeywordRow(variant_id, keywords[i])]]
        \o [i \in 1..Len(selects) |->
               [table |-> "selects", row |-> SelectRow(variant_id, i - 1, selects[i])]]
        \o [i \in 1..Len(metadata) |->
               [table |-> "metadata",
                row |-> MetadataRow(variant_id, i - 1, metadata[i].key, metadata[i].value)]]
        \o [i \in 1..Len(commands) |->
               [table |-> "commands", row |-> CommandRow(variant_id, commands[i])]]

LoadError(plugin_type, name, variant, error) ==
    [plugin_name |-> name, variant |-> variant,
     link |-> "https://github.com/meltano/hub/blob/main/_data/meltano/"
              \o plugin_type \o "/" \o name \o "/" \o variant \o ".yml",
     error |-> error]

\* An except branch that records one LoadError for the document.
LoadErrors_OnePerDocument(plugin_type, name, variant, errs) ==
    <<LoadError(plugin_type, name, variant, errs[1])>>

\* The except branch: one LoadError for every error of the ValidationError.
LoadErrors(plugin_type, name, variant, errs) ==
    [i \in 1..Len(errs) |-> LoadError(plugin_type, name, variant, errs[i])]

plugin_type == PluginTypeEnum[type_idx]

NoResponse == [op |-> "none"]

inputs == <<tree, default_variants, maintainers, response>>

Trees ==
    UNION { [S -> Docs] : S \in {T \in SUBSET Slots : Cardinality(T) <= MaxDocs} }

\* main has removed the database file and created the empty tables; load_db
\* is about to start.
InitBuild ==
    /\ tree \in Trees
    /\ maintainers \in SUBSET MaintainerIds
    /\ default_variants \in [PluginDirs -> DefaultVariantChoices]
    /\ \A k \in PluginDirs :
          k[2] \notin PluginsOfType(tree, k[1]) => default_variants[k] = None
    /\ pc = "maintainers"
    /\ type_idx = 1
    /\ plugin_name = None
    /\ todo_plugins = {}
    /\ todo_variants = {}
    /\ tx = EmptyStore
    /\ db = EmptyStore
    /\ errors = <<>>
    /\ response = NoResponse

\* A load_db whose loop over maintainers.yml inserts nothing before the plugin
\* types are processed.
InsertMaintainers_AfterTypes ==
    /\ pc = "maintainers"
    /\ pc' = "types"
    /\ type_idx' = 1
    /\ todo_plugins' = PluginsOfType(tree, PluginTypeEnum[1])
    /\ UNCHANGED <<inputs, plugin_name, todo_variants, tx, db, errors>>

\* for maintainer_id, maintainer_data in maintainers.items(): _insert_row(...)
InsertMaintainers ==
    /\ pc = "maintainers"
    /\ LET ids == SetToSeq(maintainers)
           r == InsertAll(tx, [i \in 1..Len(ids) |->
                                 [table |-> "maintainers", row |-> MaintainerRow(ids[i])]])
       IN  /\ tx' = r.connection
           /\ pc' = IF r.ok THEN "types" ELSE "raised"
    /\ type_idx' = 1
    /\ todo_plugins' = PluginsOfType(tree, PluginTypeEnum[1])
    /\ UNCHANGED <<inputs, plugin_name, todo_variants, db, errors>>

\* for plugin_type in enums.PluginTypeEnum: once the plugin directories of this
\* type are exhausted, on to the next type that has any (the passes over a type
\* without directories do nothing), else to the last type.
NextTypeIdx(t, i) ==
    LET later == { j \in (i + 1)..Len(PluginTypeEnum) : PluginsOfType(t, PluginTypeEnum[j]) # {} }
    IN  IF later = {} THEN Len(PluginTypeEnum)
        ELSE CHOOSE j \in later : \A k \in later : j <= k

NextType ==
    /\ pc = "types"
    /\ todo_plugins = {}
    /\ type_idx < Len(PluginTypeEnum)
    /\ type_idx' = NextTypeIdx(tree, type_idx)
    /\ todo_plugins' = PluginsOfType(tree, PluginTypeEnum[type_idx'])
    /\ UNCHANGED <<inputs, pc, plugin_name, todo_variants, tx, db, errors>>

\* for plugin_path in path.joinpath("meltano", plugin_type).glob("*"): the
\* order of glob is the file system's.
NextPlugin ==
    /\ pc = "types"
    /\ \E p \in todo_plugins :
          /\ plugin_name' = p
          /\ todo_plugins' = todo_plugins \ {p}
          /\ todo_variants' = VariantsOfPlugin(tree, plugin_type, p)
    /\ pc' = "variants"
    /\ UNCHANGED <<inputs, type_idx, tx, db, errors>>

\* A pass that lets the ValidationError leave load_db.
ProcessVariant_Raising ==
    /\ pc = "variants"
    /\ \E variant \in todo_variants :
          LET definition == tree[<<PluginTypeEnum[type_idx], plugin_name, variant>>]
              errs == model_validate(PluginTypeEnum[type_idx], definition)
              r == InsertAll(tx, VariantInserts(PluginTypeEnum[type_idx], plugin_name,
                                                variant, definition))
          IN  /\ todo_variants' = todo_variants \ {variant}
              /\ IF errs # <<>>
                 THEN /\ pc' = "raised"
                      /\ UNCHANGED <<tx, errors>>
                 ELSE /\ tx' = r.connection
                      /\ pc' = IF r.ok THEN "variants" ELSE "raised"
                      /\ UNCHANGED errors
    /\ UNCHANGED <<inputs, type_idx, plugin_name, todo_plugins, db>>

\* One pass of "for variant, definition in get_plugin_variants(plugin_path)":
\* validate, then either record the errors and continue, or insert the rows.
ProcessVariant ==
    /\ pc = "variants"
    /\ \E variant \in todo_variants :
          LET definition == tree[<<plugin_type, plugin_name, variant>>]
              errs == model_validate(plugin_type, definition)
              r == InsertAll(tx, VariantInserts(plugin_type, plugin_name, variant, definition))
          IN  /\ todo_variants' = todo_variants \ {variant}
              /\ IF errs # <<>>
                 THEN /\ errors' = errors \o LoadErrors(plugin_type, plugin_name, variant, errs)
                      /\ UNCHANGED <<tx, pc>>
                 ELSE /\ tx' = r.connection
                      /\ pc' = IF r.ok THEN "variants" ELSE "raised"
                      /\ UNCHANGED errors
    /\ UNCHANGED <<inputs, type_idx, plugin_name, todo_plugins, db>>

\* After the documents of the plugin: _insert_row(connection, "plugins", ...).
InsertPlugin ==
    /\ pc = "variants"
    /\ todo_variants = {}
    /\ LET r == _insert_row(tx, "plugins",
                             PluginRow(plugin_type, plugin_name,
                                       default_variants[<<plugin_type, plugin_name>>]))
       IN  /\ tx' = r.connection
           /\ pc' = IF r.ok THEN "types" ELSE "raised"
    /\ UNCHANGED <<inputs, type_idx, plugin_name, todo_plugins, todo_variants, db, errors>>

\* connection.commit(); return result
Commit ==
    /\ pc = "types"
    /\ todo_plugins = {}
    /\ type_idx = Len(PluginTypeEnum)
    /\ db' = tx
    /\ pc' = "done"
    /\ UNCHANGED <<inputs, type_idx, plugin_name, todo_plugins, todo_variants, tx, errors>>

\* An exit of the with block that commits what the open transaction holds.
Rollback_Commits ==
    /\ pc = "raised"
    /\ db' = tx
    /\ pc' = "aborted"
    /\ UNCHANGED <<inputs, type_idx, plugin_name, todo_plugins, todo_variants, tx, errors>>

\* An exception leaves load_db; in main it leaves "with sqlite3.connect(...)",
\* whose exit rolls the open transaction back.
Rollback ==
    /\ pc = "raised"
    /\ tx' = db
    /\ pc' = "aborted"
    /\ UNCHANGED <<inputs, type_idx, plugin_name, todo_plugins, todo_variants, db, errors>>

Next ==
    \/ InsertMaintainers
    \/ NextType
    \/ NextPlugin
    \/ ProcessVariant
    \/ InsertPlugin
    \/ Commit
    \/ Rollback

Spec == InitBuild /\ [][Next]_vars

\* ------------------------------------------------- the claims about load_db

ValidSlots(t) == { s \in DOMAIN t : IsValid(s[1], t[s]) }
FailingSlots(t) == DOMAIN t \ ValidSlots(t)

\* N documents, K of them failing validation
N == Cardinality(DOMAIN tree)
K == Cardinality(FailingSlots(tree))

SlotInserts(t, s) == VariantInserts(s[1], s[2], s[3], t[s])

SameKey(a, b) ==
    a.table = b.table /\ PrimaryKey(a.table, a.row) = PrimaryKey(b.table, b.row)

\* Two rows that valid documents of the tree emit into one table carry the same id.
HasDuplicateIds(t) ==
    \E s1 \in ValidSlots(t), s2 \in ValidSlots(t) :
      \E i \in 1..Len(SlotInserts(t, s1)), j \in 1..Len(SlotInserts(t, s2)) :
        /\ (s1 # s2 \/ i # j)
        /\ SameKey(SlotInserts(t, s1)[i], SlotInserts(t, s2)[j])

ExpectedVariantRows(t) == { VariantRow(PluginId(s[1], s[2]), s[3], None) : s \in ValidSlots(t) }

RECURSIVE SumOver(_, _)
SumOver(S, t) ==
    IF S = {} THEN 0
    ELSE LET s == CHOOSE x \in S : TRUE
         IN  Len(model_validate(s[1], t[s])) + SumOver(S \ {s}, t)

ErrorDocs == { <<errors[i].plugin_name, errors[i].variant>> : i \in 1..Len(errors) }

\* C2 as stated: the LoadResult of a tree with K failing documents has exactly
\* K entries in errors.
C2_ExactlyKErrors == pc = "done" => Len(errors) = K

\* C2 amended: errors holds one entry for every validation error of every
\* failing document, so at least K entries and exactly K only when each failing
\* document has a single error; every entry carries the plugin name and variant
\* of its document, and the documents named are exactly the failing ones.
C2_OneEntryPerError ==
    pc = "done" =>
      /\ Len(errors) = SumOver(FailingSlots(tree), tree)
      /\ Len(errors) >= K
      /\ ErrorDocs = { <<s[2], s[3]>> : s \in FailingSlots(tree) }
      /\ \A i \in 1..Len(errors) :
            \E s \in FailingSlots(tree) :
              /\ errors[i].plugin_name = s[2] /\ errors[i].variant = s[3]
              /\ \E j \in 1..Len(model_validate(s[1], tree[s])) :
                    errors[i].error = model_validate(s[1], tree[s])[j]

\* A rebuild that returned with a failing document that has two validation errors.
C2_Witness ==
    /\ pc = "done"
    /\ \E s \in FailingSlots(tree) : Len(model_validate(s[1], tree[s])) = 2
    /\ Len(errors) > K

\* C3: the committed store changes only at the final commit: until load_db
\* has committed a reader sees no row of the rebuild, after the commit it sees
\* every row the rebuild inserted (a Plugin row per plugin directory, a Variant
\* row per valid document, every Maintainer row), and after an exception no
\* row remains, committed or pending.
C3_AtomicRebuild ==
    /\ pc # "done" => db = EmptyStore
    /\ pc = "done" =>
          /\ db = tx
          /\ Len(db["plugins"]) = Cardinality({ <<s[1], s[2]>> : s \in DOMAIN tree })
          /\ Len(db["plugin_variants"]) = Cardinality(ValidSlots(tree))
          /\ Len(db["maintainers"]) = Cardinality(maintainers)
    /\ pc = "aborted" => tx = EmptyStore

\* load_db has raised with rows pending in the open transaction.
C3_Witness == pc = "raised" /\ tx["plugin_variants"] # <<>> /\ db = EmptyStore

UniqueIds(store) ==
    \A t \in Tables :
      \A i \in 1..Len(store[t]), j \in 1..Len(store[t]) :
        PrimaryKey(t, store[t][i]) = PrimaryKey(t, store[t][j]) => i = j

\* C4: in the open transaction and in the committed store no two rows of a
\* table carry the same id, and a rebuild in which two emitted rows of a table
\* carry the same id never commits: the insert raises.
C4_UniqueIds ==
    /\ UniqueIds(tx)
    /\ UniqueIds(db)
    /\ HasDuplicateIds(tree) => pc # "done"

\* The insert of a row whose id is already in its table has raised.
C4_Witness == pc = "raised" /\ HasDuplicateIds(tree) /\ UniqueIds(tx)

\* The plugin directories of the tree, and the Plugin rows still to insert
DirsOfTree == { <<s[1], s[2]>> : s \in DOMAIN tree }
PluginRowsPending ==
    { k \in DirsOfTree : ~HasKey(tx["plugins"], "plugins", PluginId(k[1], k[2])) }

\* C24 as stated: during a rebuild no Maintainer row is inserted before the
\* last Plugin row of the last plugin type has been inserted; the transaction
\* holds a Maintainer row only once no Plugin row is pending.
C24_MaintainersAfterPluginTypes ==
    tx["maintainers"] # <<>> => PluginRowsPending = {}

\* C24, amended: the Maintainer rows are inserted first; whenever the open
\* transaction holds a row of any other table, or the loop over the plugin
\* types has begun, every maintainer of maintainers.yml has its row.
C24_MaintainersBeforePluginTypes ==
    (\/ pc \in {"types", "variants", "done"}
     \/ \E t \in Tables \ {"maintainers"} : tx[t] # <<>>) =>
        \A m \in maintainers : HasKey(tx["maintainers"], "maintainers", m)

\* The rebuild is in the middle of a plugin directory: a Variant row is
\* inserted, the directory's Plugin row is not, and the maintainer is stored.
C24_Witness ==
    /\ pc = "variants"
    /\ maintainers # {}
    /\ tx["plugin_variants"] # <<>>
    /\ PluginRowsPending # {}
    /\ \A m \in maintainers : HasKey(tx["maintainers"], "maintainers", m)

\* Two different valid documents of the tree emit rows with the same id
DocumentsCollide(t) ==
    \E s1 \in ValidSlots(t), s2 \in ValidSlots(t) :
      /\ s1 # s2
      /\ \E i \in 1..Len(SlotInserts(t, s1)), j \in 1..Len(SlotInserts(t, s2)) :
            SameKey(SlotInserts(t, s1)[i], SlotInserts(t, s2)[j])

\* A valid document that lists one capability twice
RepeatsCapability(t, s) ==
    /\ s \in ValidSlots(t)
    /\ \E i \in 1..Len(Get(t[s], "capabilities")), j \in 1..Len(Get(t[s], "capabilities")) :
          i # j /\ Get(t[s], "capabilities")[i] = Get(t[s], "capabilities")[j]

\* C25 as stated: a document that passes validation never makes the rebuild
\* abort, a document that repeats a capability included: load_db inserts the
\* rows of every valid document, commits and returns.
C25_ValidDocumentNeverAborts ==
    ~DocumentsCollide(tree) =>
       /\ pc \notin {"raised", "aborted"}
       /\ pc = "done" =>
             \A s \in ValidSlots(tree) :
                \A i \in 1..Len(SlotInserts(tree, s)) :
                   SlotInserts(tree, s)[i].row \in RowsOf(db, SlotInserts(tree, s)[i].table)

\* What load_db does for trees whose documents do not collide: it aborts
\* exactly when a valid document repeats a capability, and the store is then
\* left without any row.
RepeatedCapabilityAborts ==
    ~DocumentsCollide(tree) =>
       /\ pc \in {"raised", "aborted"} => \E s \in DOMAIN tree : RepeatsCapability(tree, s)
       /\ pc \in {"done", "aborted"} =>
             ((\E s \in DOMAIN tree : RepeatsCapability(tree, s)) <=> pc = "aborted")
       /\ pc = "aborted" => db = EmptyStore

\* ------------------------------------------------------ the hub client
\* The store is served as it stands: no rebuild runs while the client reads.
\* A call of the client reads the store and leaves it alone, so a behaviour
\* follows one call from the store to its answer.

MaxSettings == 2       \* Setting rows of the variant whose details are read

building == <<tree, default_variants, maintainers, type_idx, plugin_name,
              todo_plugins, todo_variants, tx, db, errors>>

Serving ==
    /\ tree = <<>>
    /\ default_variants = <<>>
    /\ maintainers = {}
    /\ pc = "serving"
    /\ type_idx = 1
    /\ plugin_name = None
    /\ todo_plugins = {}
    /\ todo_variants = {}
    /\ tx = db
    /\ errors = <<>>
    /\ response = NoResponse

\* JSON values of Setting.value
JsonNull == [type |-> "null", repr |-> "null"]
JsonInt == [type |-> "int", repr |-> "3"]

\* tuple < tuple, for version tuples
Lt(a, b) == a[1] < b[1] \/ (a[1] = b[1] /\ a[2] < b[2])

LATEST == <<999, 999>>

\* ---- exceptions and their handlers

InvalidPluginTypeError(ptype) ==
    [class |-> "InvalidPluginTypeError", base |-> "BadParameterError",
     args |-> "'" \o ptype \o "' is not a valid plugin type"]

PluginNotFoundError(plugin_id) ==
    [class |-> "PluginNotFoundError", base |-> "NotFoundError",
     args |-> "Plugin '" \o plugin_id.plugin_name \o "' not found"]

PluginVariantNotFoundError(variant_id) ==
    [class |-> "PluginVariantNotFoundError", base |-> "NotFoundError",
     args |-> "Variant '" \o variant_id.plugin_variant \o "' of '"
              \o variant_id.plugin_name \o "' not found"]

AttributeError == [class |-> "AttributeError", base |-> "Exception", args |-> ""]

\* The exception handlers of the application; an exception without a handler
\* is answered 500.
exception_handler(exc) ==
    CASE exc.base = "NotFoundError"     -> [status_code |-> 404, detail |-> exc.args]
      [] exc.base = "BadParameterError" -> [status_code |-> 400, detail |-> exc.args]
      [] exc.base = "none"              -> [status_code |-> 200, detail |-> ""]
      [] OTHER                          -> [status_code |-> 500, detail |-> ""]

\* ---- ids

\* A lookup that takes every string for a member.
PluginTypeEnum_call_Any(value) == [raised |-> NoException, member |-> value]

\* enums.PluginTypeEnum(value): the member whose value it is, else ValueError
PluginTypeEnum_call(value) ==
    IF \E i \in 1..Len(PluginTypeEnum) : PluginTypeEnum[i] = value
    THEN [raised |-> NoException, member |-> value]
    ELSE [raised |-> [class |-> "ValueError", base |-> "Exception", args |-> ""],
          member |-> None]

NoId == [plugin_type |-> None, plugin_name |-> None, plugin_variant |-> None]

PluginID_from_params(ptype, name) ==
    IF PluginTypeEnum_call(ptype).raised # NoException
    THEN [raised |-> InvalidPluginTypeError(ptype), id |-> NoId]
    ELSE [raised |-> NoException,
          id |-> [plugin_type |-> PluginTypeEnum_call(ptype).member,
                  plugin_name |-> name, plugin_variant |-> None]]

VariantID_from_params(ptype, name, variant) ==
    IF PluginTypeEnum_call(ptype).raised # NoException
    THEN [raised |-> InvalidPluginTypeError(ptype), id |-> NoId]
    ELSE [raised |-> NoException,
          id |-> [plugin_type |-> PluginTypeEnum_call(ptype).member,
                  plugin_name |-> name, plugin_variant |-> variant]]

PluginID_as_db_id(plugin_id) == plugin_id.plugin_type \o "." \o plugin_id.plugin_name

VariantID_as_db_id(variant_id) ==
    variant_id.plugin_type \o "." \o variant_id.plugin_name \o "." \o variant_id.plugin_variant

\* ---- settings and the compatibility transform

\* An IntegerSetting built from the name alone: the other fields of the dump
\* take their defaults.
IntegerSetting_OfNameAlone(dump) ==
    [class |-> "integer", name |-> dump.name, kind |-> dump.kind,
     value |-> JsonNull, sensitive |-> None, aliases |-> <<>>, options |-> <<>>]

\* IntegerSetting.model_validate(dump)
IntegerSetting_model_validate(dump) ==
    [class |-> "integer", name |-> dump.name, kind |-> dump.kind,
     value |-> dump.value, sensitive |-> dump.sensitive, aliases |-> dump.aliases,
     options |-> <<>>]

\* A conversion that also turns the integer settings into decimal ones.
_convert_swapping_kinds(settings) ==
    [i \in 1..Len(settings) |->
        IF settings[i].class = DecimalSettingTag
        THEN IntegerSetting_model_validate([settings[i] EXCEPT !.kind = "integer"])
        ELSE IF settings[i].class = "integer"
             THEN [settings[i] EXCEPT !.class = DecimalSettingTag, !.kind = "decimal"]
             ELSE settings[i]]

_convert_decimal_to_integer(settings) ==
    [i \in 1..Len(settings) |->
        IF settings[i].class = DecimalSettingTag
        THEN IntegerSetting_model_validate([settings[i] EXCEPT !.kind = "integer"])
        ELSE settings[i]]

\* A threshold that takes (3, 9) itself for an older client.
DowngradesDecimal_Through_3_9(meltano_version) == ~Lt(<<3, 9>>, meltano_version)

\* if meltano_version < (3, 9)
DowngradesDecimal(meltano_version) == Lt(meltano_version, <<3, 9>>)

\* A threshold that clears sensitive for every client older than (3, 9).
DowngradesSensitive_Below_3_9(meltano_version) == Lt(meltano_version, <<3, 9>>)

\* if meltano_version < (3, 3)
DowngradesSensitive(meltano_version) == Lt(meltano_version, <<3, 3>>)

\* The two downgrade rules of get_plugin_details, applied to details.settings
Downgrade(settings, meltano_version) ==
    LET converted == IF DowngradesDecimal(meltano_version)
                     THEN _convert_decimal_to_integer(settings)
                     ELSE settings
    IN  IF DowngradesSensitive(meltano_version)
        THEN [i \in 1..Len(converted) |-> [converted[i] EXCEPT !.sensitive = None]]
        ELSE converted

\* ---- plugin details

RECURSIVE SelectRows(_, _, _)
SelectRows(rows, column, value) ==
    IF rows = <<>> THEN <<>>
    ELSE (IF rows[1][column] = value THEN <<rows[1]>> ELSE <<>>)
         \o SelectRows(Tail(rows), column, value)

\* Setting.aliases: [alias.name for alias in self.setting_aliases] or None;
\* the empty sequence stands for None, which the property returns for no row.
Setting_aliases(store, setting) ==
    LET rows == SelectRows(store["setting_aliases"], "setting_id", setting.id)
    IN  [i \in 1..Len(rows) |-> rows[i].name]

\* A Setting object: the columns of its row and the aliases property
SettingObject(store, row) ==
    [f \in DOMAIN row \cup {"aliases"} |->
        IF f = "aliases" THEN Setting_aliases(store, row) ELSE row[f]]

\* variant.settings, the relationship
SettingsOf(store, variant) ==
    LET rows == SelectRows(store["settings"], "variant_id", variant.id)
    IN  [i \in 1..Len(rows) |-> SettingObject(store, rows[i])]

\* A value that is a list or None: variant.select, variant.extractor_metadata
NoneValue == [isnull |-> TRUE, items |-> <<>>]
ListValue(items) == [isnull |-> FALSE, items |-> items]

\* PluginVariant.capabilities: [c.name for c in self.plugin_capabilities]
PluginVariant_capabilities(store, variant) ==
    LET rows == SelectRows(store["capabilities"], "variant_id", variant.id)
    IN  [i \in 1..Len(rows) |-> rows[i].name]

\* PluginVariant.commands: {cmd.name: cmd for cmd in self.plugin_commands}
PluginVariant_commands(store, variant) ==
    LET rows == SelectRows(store["commands"], "variant_id", variant.id)
    IN  [name \in { rows[i].name : i \in 1..Len(rows) } |->
           rows[CHOOSE i \in 1..Len(rows) :
                  /\ rows[i].name = name
                  /\ \A j \in 1..Len(rows) : rows[j].name = name => j <= i]]

\* PluginVariant.select: the expressions, None when there is none
PluginVariant_select(store, variant) ==
    LET rows == SelectRows(store["selects"], "variant_id", variant.id)
    IN  IF rows = <<>> THEN NoneValue
        ELSE ListValue([i \in 1..Len(rows) |-> rows[i].expression])

\* PluginVariant.extractor_metadata: {m.key: m.value}, None when there is none
PluginVariant_extractor_metadata(store, variant) ==
    LET rows == SelectRows(store["metadata"], "variant_id", variant.id)
    IN  IF rows = <<>> THEN NoneValue
        ELSE ListValue([i \in 1..Len(rows) |-> [key |-> rows[i].key, value |-> rows[i].value]])

\* PluginVariant.settings_group_validation: a defaultdict(list) filled in the
\* order of the rows of required_settings; list(values()) gives the groups in
\* the order in which their group_id first came, each with its names in the
\* order of the rows.
RECURSIVE GroupIdsInOrder(_, _)
GroupIdsInOrder(rows, seen) ==
    IF rows = <<>> THEN seen
    ELSE GroupIdsInOrder(Tail(rows),
                         IF \E i \in 1..Len(seen) : seen[i] = rows[1].group_id
                         THEN seen ELSE Append(seen, rows[1].group_id))

PluginVariant_settings_group_validation(store, variant) ==
    LET rows == SelectRows(store["setting_groups"], "variant_id", variant.id)
        group_ids == GroupIdsInOrder(rows, <<>>)
    IN  [g \in 1..Len(group_ids) |->
           LET members == SelectRows(rows, "group_id", group_ids[g])
           IN  [j \in 1..Len(members) |-> members[j].setting_name]]

\* The value of commands[name] in a response: str | Command, of a Command row
\* the Command model of its attributes
Command_model_validate(command) ==
    IF command.args = None
    THEN [raised |-> ValidationError, value |-> None]
    ELSE [raised |-> NoException,
          value |-> [form |-> "Command", args |-> command.args,
                     description |-> command.description,
                     executable |-> command.executable]]

ResponseClassOf(ptype) ==
    CASE ptype = "extractors"    -> "ExtractorResponse"
      [] ptype = "loaders"       -> "LoaderResponse"
      [] ptype = "utilities"     -> "UtilityResponse"
      [] ptype = "orchestrators" -> "OrchestratorResponse"
      [] ptype = "transforms"    -> "TransformResponse"
      [] ptype = "transformers"  -> "TransformerResponse"
      [] ptype = "mappers"       -> "MapperResponse"
      [] ptype = "files"         -> "FileResponse"

\* The keys the match statement adds to result for the plugin type
TypeKeys(ptype) ==
    CASE ptype = "extractors" -> {"capabilities", "select", "metadata"}
      [] ptype = "loaders"    -> {"capabilities"}
      [] OTHER                -> {}

\* <Type>Response.model_validate(result): capabilities is a list of the
\* type's enum, required for extractors and mappers; select is a list and
\* metadata a dict, None is neither; a key that is absent takes its default.
Response_model_validate(ptype, result) ==
    /\ HasCapabilitiesField(ptype) =>
          IF "capabilities" \in result.keys
          THEN \A i \in 1..Len(result.capabilities) :
                  result.capabilities[i] \in CapabilityEnumOf(ptype)
          ELSE ~CapabilitiesRequired(ptype)
    /\ "select" \in result.keys => ~result.select.isnull
    /\ "metadata" \in result.keys => ~result.metadata.isnull
    /\ \A name \in DOMAIN result.commands :
          Command_model_validate(result.commands[name]).raised = NoException

NoDetails(exc) ==
    [raised |-> exc, class |-> None, keys |-> {}, name |-> None, variant |-> None,
     plugin_type |-> None, settings |-> <<>>, settings_group_validation |-> <<>>,
     commands |-> <<>>, capabilities |-> <<>>, select |-> NoneValue, metadata |-> NoneValue]

\* _variant_details: the document of a Variant row; of its fields the model
\* follows name, variant, the settings, the required groups, the commands and
\* the fields of the plugin type.  keys holds the type's keys of result.
_variant_details(store, variant) ==
    LET plugins == SelectRows(store["plugins"], "id", variant.plugin_id)
        settings == SettingsOf(store, variant)
        validated == [i \in 1..Len(settings) |-> PluginSetting_model_validate(settings[i])]
        ptype == plugins[1].plugin_type
        commands == PluginVariant_commands(store, variant)
        result ==
            [raised |-> NoException, class |-> ResponseClassOf(ptype), keys |-> TypeKeys(ptype),
             name |-> plugins[1].name, variant |-> variant.name, plugin_type |-> ptype,
             settings |-> [i \in 1..Len(validated) |-> validated[i].root],
             settings_group_validation |-> PluginVariant_settings_group_validation(store, variant),
             commands |-> commands,
             capabilities |-> IF "capabilities" \in TypeKeys(ptype)
                              THEN PluginVariant_capabilities(store, variant) ELSE <<>>,
             select |-> IF "select" \in TypeKeys(ptype)
                        THEN PluginVariant_select(store, variant) ELSE NoneValue,
             metadata |-> IF "metadata" \in TypeKeys(ptype)
                          THEN PluginVariant_extractor_metadata(store, variant) ELSE NoneValue]
    IN  IF plugins = <<>> THEN NoDetails(AttributeError)
        ELSE IF \E i \in 1..Len(validated) : validated[i].raised # NoException
        THEN NoDetails(ValidationError)
        ELSE IF ~Response_model_validate(ptype, result) THEN NoDetails(ValidationError)
        ELSE [result EXCEPT !.commands =
                 [name \in DOMAIN commands |-> Command_model_validate(commands[name]).value]]

get_plugin_details(store, variant_id, meltano_version) ==
    LET found == SelectRows(store["plugin_variants"], "id", VariantID_as_db_id(variant_id))
        details == _variant_details(store, found[1])
    IN  IF found = <<>> THEN NoDetails(PluginVariantNotFoundError(variant_id))
        ELSE IF details.raised # NoException THEN details
        ELSE [details EXCEPT !.settings = Downgrade(details.settings, meltano_version)]

\* The store of the details tests: one extractor, one variant, its settings.
SettingKindChoices == {"decimal", "integer", "string", None}
SensitiveChoices == {PyTrue, PyFalse, None}
ValueChoices == {JsonNull, JsonInt}
SettingNames == <<"mock_1", "mock_2", "mock_3", "mock_4">>

SettingShapes ==
    [kind : SettingKindChoices, sensitive : SensitiveChoices, value : ValueChoices]

MockPlugin ==
    [id |-> "extractors.tap-mock", default_variant_id |-> "tap-mock.singer",
     plugin_type |-> "extractors", name |-> "tap-mock"]

MockVariant == VariantRow("extractors.tap-mock", "singer", None)

\* The rows that make the document of an extractor validate: a select
\* expression and a metadata override.
MockSelect == SelectRow(MockVariant.id, 0, "*.*")
MockMetadata == MetadataRow(MockVariant.id, 0, "*", [type |-> "dict", repr |-> "{}"])

\* The aliases of the first setting
MockAliases == <<"mock_b", "mock_a">>

MockStore(shapes) ==
    [EmptyStore EXCEPT
       !["plugins"] = <<MockPlugin>>,
       !["plugin_variants"] = <<MockVariant>>,
       !["selects"] = <<MockSelect>>,
       !["metadata"] = <<MockMetadata>>,
       !["settings"] = [i \in 1..Len(shapes) |->
                          SettingRow(MockVariant.id, SettingNames[i], shapes[i].kind,
                                     shapes[i].value, shapes[i].sensitive)],
       !["setting_aliases"] =
           IF shapes = <<>> THEN <<>>
           ELSE [j \in 1..Len(MockAliases) |->
                   SettingAliasRow(MockVariant.id \o ".setting_" \o SettingNames[1],
                                   MockAliases[j])]]

DetailStores ==
    { MockStore(shapes) : shapes \in UNION { [1..n -> SettingShapes] : n \in 0..MaxSettings } }

\* Client versions on both sides of the two thresholds, in major and in minor.
Versions ==
    {<<2, 10>>, <<3, 2>>, <<3, 3>>, <<3, 8>>, <<3, 9>>, <<3, 10>>, <<4, 0>>, LATEST}

DetailVariantIds ==
    { [plugin_type |-> "extractors", plugin_name |-> "tap-mock", plugin_variant |-> v] :
        v \in {"singer", "unknown"} }

InitDetails ==
    /\ db \in DetailStores
    /\ Serving

\* hub.get_plugin_details(variant_id, meltano_version=...)
GetPluginDetails ==
    /\ pc = "serving"
    /\ \E variant_id \in DetailVariantIds, meltano_version \in Versions :
          LET r == get_plugin_details(db, variant_id, meltano_version)
          IN  response' = [op |-> "get_plugin_details", variant_id |-> variant_id,
                           meltano_version |-> meltano_version, raised |-> r.raised,
                           settings |-> r.settings, details |-> r,
                           applied |-> 1, again |-> <<>>]
    /\ pc' = "answered"
    /\ UNCHANGED building

\* The two downgrade rules once more, on the document just returned.
DowngradeAgain ==
    /\ pc = "answered"
    /\ response.op = "get_plugin_details"
    /\ response.raised = NoException
    /\ response.applied = 1
    /\ response' = [response EXCEPT
                      !.applied = 2,
                      !.again = Downgrade(response.settings, response.meltano_version)]
    /\ UNCHANGED <<pc, building>>

NextDetails ==
    \/ GetPluginDetails
    \/ DowngradeAgain

SpecDetails == InitDetails /\ [][NextDetails]_vars

\* The Setting rows the returned document was assembled from.
StoredSettings == SelectRows(db["settings"], "variant_id", MockVariant.id)

Returned ==
    /\ response.op = "get_plugin_details"
    /\ response.raised = NoException

C6_SensitiveAbsent ==
    Returned =>
      LET v == response.meltano_version
          older == v[1] < 3 \/ (v[1] = 3 /\ v[2] < 3)
      IN  /\ Len(response.settings) = Len(StoredSettings)
          /\ \A i \in 1..Len(StoredSettings) :
                /\ older => response.settings[i].sensitive = None
                /\ ~older => response.settings[i].sensitive = StoredSettings[i].sensitive
                /\ StoredSettings[i].sensitive # None =>
                      ((response.settings[i].sensitive = None) <=> older)

\* A sensitive setting returned without the field to a client of the 3.2 line.
C6_Witness ==
    /\ Returned
    /\ response.meltano_version = <<3, 2>>
    /\ \E i \in 1..Len(StoredSettings) :
          /\ StoredSettings[i].sensitive = PyTrue
          /\ response.settings[i].sensitive = None

\* C7: the two downgrade rules applied a second time, with the same version,
\* to a document they were applied to leave that document as it is.
C7_Idempotent ==
    (response.op = "get_plugin_details" /\ response.applied = 2) =>
        response.again = response.settings

\* The rules were applied twice to a document in which both of them acted.
C7_Witness ==
    /\ response.op = "get_plugin_details"
    /\ response.applied = 2
    /\ response.meltano_version = <<3, 2>>
    /\ \E i \in 1..Len(StoredSettings) :
          /\ StoredSettings[i].kind = "decimal"
          /\ StoredSettings[i].sensitive = PyTrue
          /\ response.again[i].kind = "integer"
          /\ response.again[i].sensitive = None

\* Two settings that differ at most in a decimal kind shown as integer and in
\* sensitive being absent
SameButKindAndSensitive(a, b) ==
    /\ [a EXCEPT !.class = "", !.kind = "", !.sensitive = None]
         = [b EXCEPT !.class = "", !.kind = "", !.sensitive = None]
    /\ a.kind # b.kind => {a.kind, b.kind} = {"decimal", "integer"}
    /\ a.sensitive # b.sensitive => None \in {a.sensitive, b.sensitive}

\* The version of a second client: one of each compatibility range
OtherVersions == {<<3, 2>>, <<3, 8>>, LATEST}

\* The document _variant_details assembles for the variant that was asked for
AssembledDocument ==
    _variant_details(db, SelectRows(db["plugin_variants"], "id",
                                    VariantID_as_db_id(response.variant_id))[1])

MaxLen == 4            \* characters after the product token of a User-Agent

DigitChars == {"0", "1", "2", "3", "4", "5", "6", "7", "8", "9"}
LowercaseLetters ==
    {"a", "b", "c", "d", "e", "f", "g", "h", "i", "j", "k", "l", "m",
     "n", "o", "p", "q", "r", "s", "t", "u", "v", "w", "x", "y", "z"}

Alphabet == {"3", "9", ".", "a", "A", "+"}
ProductTokens == {"Meltano/", "Mozilla/"}

NoHeader == [present |-> FALSE, product |-> "", rest |-> <<>>]

UserAgents ==
    {NoHeader}
    \cup { [present |-> TRUE, product |-> t, rest |-> r] :
             t \in ProductTokens, r \in UNION { [1..n -> Alphabet] : n \in 0..MaxLen } }

\* A pattern that takes the letters of either case.
USER_AGENT_PATTERN_IgnoreCase(ua) ==
    IF /\ ua.product = "Meltano/"
       /\ Len(ua.rest) >= 1
       /\ \A i \in 1..Len(ua.rest) :
             ua.rest[i] \in LowercaseLetters \cup DigitChars \cup {".", "A"}
    THEN [matched |-> TRUE, version |-> ua.rest]
    ELSE [matched |-> FALSE, version |-> <<>>]

\* USER_AGENT_PATTERN.match(ua): ^Meltano/(?P<version>[a-z0-9.]+)$
USER_AGENT_PATTERN(ua) ==
    IF /\ ua.product = "Meltano/"
       /\ Len(ua.rest) >= 1
       /\ \A i \in 1..Len(ua.rest) : ua.rest[i] \in LowercaseLetters \cup DigitChars \cup {"."}
    THEN [matched |-> TRUE, version |-> ua.rest]
    ELSE [matched |-> FALSE, version |-> <<>>]

\* packaging.version.Version(text), for the texts over Alphabet: a release
\* N(.N)*, then an optional pre-release ([.]?a[.]?N?) and an optional local
\* part (+x(.x)*), letters in either case.  The other parts of a version (v,
\* epoch, post, dev, the longer pre-release spellings) need characters that
\* Alphabet does not hold.
Digits == <<"0", "1", "2", "3", "4", "5", "6", "7", "8", "9">>
DigitValue(c) == (CHOOSE i \in 1..Len(Digits) : Digits[i] = c) - 1
Lower(c) == IF c = "A" THEN "a" ELSE c
IsLocalChar(c) == Lower(c) \in LowercaseLetters \cup DigitChars

RECURSIVE SpanDigits(_, _)
SpanDigits(text, i) ==
    IF i <= Len(text) /\ text[i] \in DigitChars THEN SpanDigits(text, i + 1) ELSE i

RECURSIVE SpanLocal(_, _)
SpanLocal(text, i) ==
    IF i <= Len(text) /\ IsLocalChar(text[i]) THEN SpanLocal(text, i + 1) ELSE i

RECURSIVE ParseInt(_, _, _)
ParseInt(text, i, j) ==
    IF j <= i THEN 0 ELSE ParseInt(text, i, j - 1) * 10 + DigitValue(text[j - 1])

RECURSIVE ReleaseTail(_, _, _)
ReleaseTail(text, j, segments) ==
    IF j <= Len(text) /\ text[j] = "." /\ SpanDigits(text, j + 1) > j + 1
    THEN ReleaseTail(text, SpanDigits(text, j + 1),
                     Append(segments, ParseInt(text, j + 1, SpanDigits(text, j + 1))))
    ELSE [segments |-> segments, end |-> j]

PreEnd(text, p) ==
    LET q == IF p + 1 <= Len(text) /\ text[p] = "." /\ Lower(text[p + 1]) = "a"
             THEN p + 1 ELSE p
        n == IF q + 1 <= Len(text) /\ text[q + 1] = "." THEN q + 2 ELSE q + 1
    IN  IF q <= Len(text) /\ Lower(text[q]) = "a" THEN SpanDigits(text, n) ELSE p

RECURSIVE LocalTail(_, _)
LocalTail(text, k) ==
    IF k <= Len(text) /\ text[k] = "." /\ SpanLocal(text, k + 1) > k + 1
    THEN LocalTail(text, SpanLocal(text, k + 1))
    ELSE k

\* 0 when a "+" is not followed by a local segment
LocalEnd(text, p) ==
    IF p <= Len(text) /\ text[p] = "+"
    THEN IF SpanLocal(text, p + 1) = p + 1 THEN 0 ELSE LocalTail(text, SpanLocal(text, p + 1))
    ELSE p

InvalidVersion == [valid |-> FALSE, major |-> 0, minor |-> 0]

Version(text) ==
    LET j == SpanDigits(text, 1)
        release == ReleaseTail(text, j, <<ParseInt(text, 1, j)>>)
        end == LocalEnd(text, PreEnd(text, release.end))
    IN  IF j = 1 THEN InvalidVersion
        ELSE IF end # Len(text) + 1 THEN InvalidVersion
        ELSE [valid |-> TRUE, major |-> release.segments[1],
              minor |-> IF Len(release.segments) >= 2 THEN release.segments[2] ELSE 0]

get_version_tuple(ua) ==
    IF ua.present /\ (ua.product # "" \/ ua.rest # <<>>) /\ USER_AGENT_PATTERN(ua).matched
    THEN IF Version(USER_AGENT_PATTERN(ua).version).valid
         THEN <<Version(USER_AGENT_PATTERN(ua).version).major,
                Version(USER_AGENT_PATTERN(ua).version).minor>>
         ELSE LATEST
    ELSE LATEST

\* The store of tests/app/test_hub.py: tap-mock with a sensitive string
\* setting, an integer setting and a decimal setting; with them the two rows
\* that make the document of the extractor validate.
FixtureStore ==
    [EmptyStore EXCEPT
       !["plugins"] = <<MockPlugin>>,
       !["plugin_variants"] = <<MockVariant>>,
       !["selects"] = <<MockSelect>>,
       !["metadata"] = <<MockMetadata>>,
       !["settings"] =
           <<SettingRow(MockVariant.id, "mock_string", "string", JsonNull, PyTrue),
             SettingRow(MockVariant.id, "mock_integer", "integer", JsonNull, None),
             SettingRow(MockVariant.id, "mock_decimal", "decimal", JsonNull, None)>>]

InitVersion ==
    /\ db = FixtureStore
    /\ Serving

\* GET /{plugin_type}/{plugin_name}--{plugin_variant}: the variant id of the
\* path, the client version of the User-Agent, the details for that version.
get_plugin_variant(ptype, name, variant, ua) ==
    /\ pc = "serving"
    /\ LET id == VariantID_from_params(ptype, name, variant)
           meltano_version == get_version_tuple(ua)
           r == get_plugin_details(db, id.id, meltano_version)
           raised == IF id.raised # NoException THEN id.raised ELSE r.raised
       IN  response' = [op |-> "get_plugin_variant", plugin_type |-> ptype,
                        plugin_name |-> name, plugin_variant |-> variant,
                        user_agent |-> ua, meltano_version |-> meltano_version,
                        raised |-> raised, http |-> exception_handler(raised),
                        settings |-> IF id.raised # NoException THEN <<>> ELSE r.settings]
    /\ pc' = "answered"
    /\ UNCHANGED building

GetMockVariant == \E ua \in UserAgents : get_plugin_variant("extractors", "tap-mock", "singer", ua)

NextVersion == GetMockVariant

SpecVersion == InitVersion /\ [][NextVersion]_vars

\* What _variant_details assembles from the stored settings, no rule applied.
AssembledSettings ==
    [i \in 1..Len(StoredSettings) |-> PluginSetting_model_validate(SettingObject(db, StoredSettings[i])).root]

Answered == response.op = "get_plugin_variant" /\ response.raised = NoException

IsMeltanoAgent(ua) == ua.present /\ ua.product = "Meltano/"

\* C8 as stated: the client version is (major, minor) of the version whenever
\* the User-Agent is Meltano/<version> with a version that parses, and LATEST
\* in every other case; with LATEST no downgrade rule is applied.
C8_EveryParseableVersion ==
    Answered =>
      LET ua == response.user_agent
      IN  /\ IF IsMeltanoAgent(ua) /\ Version(ua.rest).valid
             THEN response.meltano_version = <<Version(ua.rest).major, Version(ua.rest).minor>>
             ELSE response.meltano_version = LATEST
          /\ response.meltano_version = LATEST => response.settings = AssembledSettings

OnlyLowercaseDigitsDots(text) ==
    \A i \in 1..Len(text) : text[i] \in LowercaseLetters \cup DigitChars \cup {"."}

\* C8 amended: the client version is (major, minor) of the version exactly
\* when the User-Agent is Meltano/<version> with a version made only of
\* lowercase letters, digits and dots that parses (pre-releases such as 3.9a
\* included); it is LATEST in every other case: no header, another agent, a
\* version that does not parse, and also a version that parses but holds an
\* uppercase letter or a local part (+...).  With LATEST no downgrade rule is
\* applied: the settings are returned as assembled.
C8_VersionOfUserAgent ==
    Answered =>
      LET ua == response.user_agent
      IN  /\ IF IsMeltanoAgent(ua) /\ OnlyLowercaseDigitsDots(ua.rest) /\ Version(ua.rest).valid
             THEN response.meltano_version = <<Version(ua.rest).major, Version(ua.rest).minor>>
             ELSE response.meltano_version = LATEST
          /\ response.meltano_version = LATEST => response.settings = AssembledSettings

\* A pre-release of the 3.3 line was recognised, and the decimal rule applied.
C8_Witness ==
    /\ Answered
    /\ response.user_agent = [present |-> TRUE, product |-> "Meltano/",
                              rest |-> <<"3", ".", "3", "a">>]
    /\ response.meltano_version = <<3, 3>>
    /\ response.settings # AssembledSettings

\* ------------------------------------------------- indexes and statistics

MaxPlugins == 2        \* Plugin rows of a served store

BASE_HUB_URL == "https://hub.meltano.com"

_build_variant_path(ptype, name, variant) ==
    "/meltano/api/v1/plugins" \o "/" \o ptype \o "/" \o name \o "--" \o variant

\* _get_all_plugins: the Variant rows joined to their Plugin row and to the
\* Variant row that is the plugin's default, in the order of the Variant
\* rows; plugin_type None selects every type.
RECURSIVE JoinDefault(_, _, _)
JoinDefault(store, variants, ptype) ==
    IF variants = <<>> THEN <<>>
    ELSE LET v == variants[1]
             plugins == SelectRows(store["plugins"], "id", v.plugin_id)
             defaults == IF plugins = <<>> THEN <<>>
                         ELSE SelectRows(SelectRows(store["plugin_variants"], "id",
                                                    plugins[1].default_variant_id),
                                         "plugin_id", plugins[1].id)
         IN  (IF /\ plugins # <<>>
                 /\ defaults # <<>>
                 /\ (ptype = None \/ plugins[1].plugin_type = ptype)
              THEN <<[name |-> plugins[1].name, plugin_type |-> plugins[1].plugin_type,
                      variant |-> v.name, logo_url |-> v.logo_url,
                      default_variant |-> defaults[1].name]>>
              ELSE <<>>)
             \o JoinDefault(store, Tail(variants), ptype)

_get_all_plugins(store, ptype) == JoinDefault(store, store["plugin_variants"], ptype)

\* The loop of get_plugin_type_index over the rows: a PluginRef for the first
\* row of a plugin, a variant reference for every row.
RECURSIVE TypeIndexOf(_, _, _)
TypeIndexOf(rows, ptype, plugins) ==
    IF rows = <<>> THEN plugins
    ELSE LET row == rows[1]
             logo_http_url == IF row.logo_url # None /\ row.logo_url # ""
                              THEN BASE_HUB_URL \o "/assets" \o row.logo_url
                              ELSE None
             with_ref == IF row.name \in DOMAIN plugins THEN plugins
                         ELSE (row.name :> [default_variant |-> row.default_variant,
                                            logo_url |-> logo_http_url,
                                            variants |-> <<>>]) @@ plugins
             ref == _build_variant_path(ptype, row.name, row.variant)
         IN  TypeIndexOf(Tail(rows), ptype,
                         [with_ref EXCEPT ![row.name].variants = (row.variant :> ref) @@ @])

get_plugin_type_index(store, ptype) ==
    IF PluginTypeEnum_call(ptype).raised # NoException
    THEN [raised |-> InvalidPluginTypeError(ptype), result |-> <<>>]
    ELSE [raised |-> NoException,
          result |-> TypeIndexOf(_get_all_plugins(store, PluginTypeEnum_call(ptype).member),
                                 PluginTypeEnum_call(ptype).member, <<>>)]

\* The loop of get_plugin_index over the rows of every type: a PluginRef for
\* the first row of a plugin under its type, a variant reference for every row.
RECURSIVE IndexOf(_, _)
IndexOf(rows, plugins) ==
    IF rows = <<>> THEN plugins
    ELSE LET row == rows[1]
             logo_http_url == IF row.logo_url # None /\ row.logo_url # ""
                              THEN BASE_HUB_URL \o row.logo_url
                              ELSE None
             of_type == plugins[row.plugin_type]
             with_ref == IF row.name \in DOMAIN of_type THEN of_type
                         ELSE (row.name :> [default_variant |-> row.default_variant,
                                            logo_url |-> logo_http_url,
                                            variants |-> <<>>]) @@ of_type
             ref == _build_variant_path(row.plugin_type, row.name, row.variant)
         IN  IndexOf(Tail(rows),
                     [plugins EXCEPT ![row.plugin_type] =
                        [with_ref EXCEPT ![row.name].variants = (row.variant :> ref) @@ @]])

get_plugin_index(store) ==
    IndexOf(_get_all_plugins(store, None), [key \in PluginTypes |-> <<>>])

\* get_default_variant_url: the Plugin rows joined to their default Variant
\* row, where that Variant row belongs to the plugin asked for; the first one.
RECURSIVE JoinPluginDefault(_, _, _)
JoinPluginDefault(store, plugins, db_id) ==
    IF plugins = <<>> THEN <<>>
    ELSE LET defaults == SelectRows(SelectRows(store["plugin_variants"], "id",
                                               plugins[1].default_variant_id),
                                    "plugin_id", db_id)
         IN  [i \in 1..Len(defaults) |-> [plugin |-> plugins[1], variant |-> defaults[i].name]]
             \o JoinPluginDefault(store, Tail(plugins), db_id)

get_default_variant_url(store, plugin_id) ==
    LET rows == JoinPluginDefault(store, store["plugins"], PluginID_as_db_id(plugin_id))
    IN  IF rows # <<>>
        THEN [raised |-> NoException,
              url |-> _build_variant_path(rows[1].plugin.plugin_type, rows[1].plugin.name,
                                          rows[1].variant)]
        ELSE [raised |-> PluginNotFoundError(plugin_id), url |-> None]

\* get_plugin_stats: select plugin_type, count(id) from plugins group by plugin_type
get_plugin_stats(store) ==
    [t \in { store["plugins"][i].plugin_type : i \in 1..Len(store["plugins"]) } |->
        Cardinality({ i \in 1..Len(store["plugins"]) : store["plugins"][i].plugin_type = t })]

\* The rows of a table in another order: a select without ORDER BY returns
\* them in an order the store chooses.
Reordered(store, table, order) ==
    [store EXCEPT ![table] = [i \in 1..Len(store[table]) |-> store[table][order[i]]]]

RowOrders(store, table) == Permutations(1..Len(store[table]))

\* The served stores: some plugins, each with a default variant name and some
\* Variant rows, the default one among them or not.
IndexPlugins ==
    {<<"extractors", "tap-a">>, <<"extractors", "tap-b">>, <<"loaders", "target-a">>}
IndexVariants == {"c", "d"}
LogoOf(variant) == IF variant = "c" THEN "/logos/c.png" ELSE None

IndexShapes ==
    UNION { [S -> [default : IndexVariants, variants : SUBSET IndexVariants]] :
              S \in { T \in SUBSET IndexPlugins : Cardinality(T) <= MaxPlugins } }

IndexStore(shape) ==
    LET keys == SetToSeq(DOMAIN shape)
    IN  [EmptyStore EXCEPT
           !["plugins"] = [i \in 1..Len(keys) |->
                             PluginRow(keys[i][1], keys[i][2], shape[keys[i]].default)],
           !["plugin_variants"] =
               Flatten([i \in 1..Len(keys) |->
                          LET names == SetToSeq(shape[keys[i]].variants)
                          IN  [j \in 1..Len(names) |->
                                 VariantRow(PluginId(keys[i][1], keys[i][2]), names[j],
                                            LogoOf(names[j]))]])]

TypeStrings == PluginTypes \cup {"bogus-type", "Extractors", "extractor"}
NameStrings == {"tap-a", "unknown"}
VariantStrings == {"c", "unknown"}

InitIndex ==
    /\ db \in { IndexStore(shape) : shape \in IndexShapes }
    /\ Serving

\* GET /stats
stats ==
    /\ pc = "serving"
    /\ response' = [op |-> "get_plugin_stats", raised |-> NoException,
                    http |-> exception_handler(NoException),
                    result |-> get_plugin_stats(db)]
    /\ pc' = "answered"
    /\ UNCHANGED building

\* GET /{plugin_type}/index
get_type_index ==
    /\ pc = "serving"
    /\ \E ptype \in TypeStrings, order \in RowOrders(db, "plugin_variants") :
          LET r == get_plugin_type_index(Reordered(db, "plugin_variants", order), ptype)
          IN  response' = [op |-> "get_plugin_type_index", plugin_type |-> ptype,
                           row_order |-> order,
                           raised |-> r.raised, http |-> exception_handler(r.raised),
                           result |-> r.result]
    /\ pc' = "answered"
    /\ UNCHANGED building

\* GET /index
get_index ==
    /\ pc = "serving"
    /\ \E order \in RowOrders(db, "plugin_variants") :
          response' = [op |-> "get_plugin_index", row_order |-> order,
                       raised |-> NoException, http |-> exception_handler(NoException),
                       result |-> get_plugin_index(Reordered(db, "plugin_variants", order))]
    /\ pc' = "answered"
    /\ UNCHANGED building

\* GET /{plugin_type}/{plugin_name}/default
get_default_plugin ==
    /\ pc = "serving"
    /\ \E ptype \in TypeStrings, name \in NameStrings :
          LET id == PluginID_from_params(ptype, name)
              r == get_default_variant_url(db, id.id)
              raised == IF id.raised # NoException THEN id.raised ELSE r.raised
          IN  response' = [op |-> "get_default_plugin", plugin_type |-> ptype,
                           plugin_name |-> name, raised |-> raised,
                           http |-> IF raised = NoException
                                    THEN [status_code |-> 307, detail |-> ""]
                                    ELSE exception_handler(raised),
                           url |-> IF raised = NoException THEN r.url ELSE None]
    /\ pc' = "answered"
    /\ UNCHANGED building

GetVariant ==
    \E ptype \in TypeStrings, name \in NameStrings, variant \in VariantStrings :
       get_plugin_variant(ptype, name, variant, NoHeader)

NextIndex ==
    \/ stats
    \/ get_index
    \/ get_type_index
    \/ get_default_plugin
    \/ GetVariant

SpecIndex == InitIndex /\ [][NextIndex]_vars

EightTypes ==
    {"extractors", "loaders", "transformers", "utilities", "transforms",
     "orchestrators", "mappers", "files"}

PluginsOfStoredType(t) ==
    Cardinality({ i \in 1..Len(db["plugins"]) : db["plugins"][i].plugin_type = t })

\* C9 as stated: the statistics map every one of the eight plugin types to the
\* number of Plugin rows of that type, 0 for a type without plugins.
C9_AllEightTypes ==
    response.op = "get_plugin_stats" =>
      /\ DOMAIN response.result = EightTypes
      /\ \A t \in EightTypes : response.result[t] = PluginsOfStoredType(t)

ChecksPluginType ==
    response.op \in {"get_plugin_type_index", "get_default_plugin", "get_plugin_variant"}

IndexOfAnsweredOrder ==
    get_plugin_index(Reordered(db, "plugin_variants", response.row_order))

TypeIndexAnswered ==
    /\ response.op = "get_plugin_type_index"
    /\ response.raised = NoException

\* C21 as stated: for each of the eight plugin types t, get_plugin_type_index(t)
\* equals the entry for t of get_plugin_index(): the same plugin names and,
\* for each plugin, the same default_variant, logo_url and variant references.
C21_TypeIndexIsIndexEntry ==
    TypeIndexAnswered =>
      response.result = IndexOfAnsweredOrder[response.plugin_type]

\* What the two indexes do agree on: the plugin names and, for each plugin,
\* the default variant and the variant references; and the logo_url where
\* the variant row that introduces the plugin has none.
TypeIndexIsIndexEntry_ButLogo ==
    TypeIndexAnswered =>
      LET of_type == response.result
          entry == IndexOfAnsweredOrder[response.plugin_type]
      IN  /\ DOMAIN of_type = DOMAIN entry
          /\ \A name \in DOMAIN of_type :
                /\ of_type[name].default_variant = entry[name].default_variant
                /\ of_type[name].variants = entry[name].variants
                /\ (of_type[name].logo_url = None) = (entry[name].logo_url = None)

IndexAnswered == response.op = "get_plugin_index"

\* The Plugin row of a Variant row
PluginOfVariant(v) == SelectRows(db["plugins"], "id", v.plugin_id)[1]

\* The Variant rows of the store that the answered index lists under their
\* plugin's type and name with the reference of the variant
ListedVariants ==
    { i \in 1..Len(db["plugin_variants"]) :
        LET v == db["plugin_variants"][i]
            p == PluginOfVariant(v)
        IN  /\ p.name \in DOMAIN response.result[p.plugin_type]
            /\ v.name \in DOMAIN response.result[p.plugin_type][p.name].variants
            /\ response.result[p.plugin_type][p.name].variants[v.name]
                  = "/meltano/api/v1/plugins/" \o p.plugin_type \o "/" \o p.name
                    \o "--" \o v.name }

\* The Variant rows of plugins whose default variant has a Variant row
VariantsWithStoredDefault ==
    { i \in 1..Len(db["plugin_variants"]) :
        LET p == PluginOfVariant(db["plugin_variants"][i])
        IN  \E j \in 1..Len(db["plugin_variants"]) :
               /\ db["plugin_variants"][j].id = p.default_variant_id
               /\ db["plugin_variants"][j].plugin_id = p.id }

\* C26 as stated: every Variant row of the store is listed by get_plugin_index
\* under its plugin's type and name, with the reference
\* /meltano/api/v1/plugins/<type>/<name>--<variant>, the variants of a plugin
\* whose declared default variant was not loaded included.
C26_EveryVariantIsListed ==
    IndexAnswered => ListedVariants = 1..Len(db["plugin_variants"])

\* What the index lists: the variants of the plugins whose default variant
\* is stored, and no other.
ListedWhenDefaultIsStored ==
    IndexAnswered => ListedVariants = VariantsWithStoredDefault

\* An index of one type without the logos
WithoutLogos(of_type) ==
    [name \in DOMAIN of_type |-> [of_type[name] EXCEPT !.logo_url = None]]

\* C29 as stated: get_plugin_index and get_plugin_type_index are functions of
\* the rows of the store alone; the result, each plugin's logo_url and
\* default_variant included, is the same in whatever order the store returns
\* the joined variant rows.
C29_IndexIgnoresRowOrder ==
    /\ IndexAnswered => response.result = get_plugin_index(db)
    /\ TypeIndexAnswered =>
          response.result = get_plugin_type_index(db, response.plugin_type).result

\* What does not depend on the order of the rows: the plugin names, the
\* default variants and the variant references.
IndexIgnoresRowOrder_ButLogo ==
    /\ IndexAnswered =>
          \A t \in PluginTypes :
             WithoutLogos(response.result[t]) = WithoutLogos(get_plugin_index(db)[t])
    /\ TypeIndexAnswered =>
          WithoutLogos(response.result)
            = WithoutLogos(get_plugin_type_index(db, response.plugin_type).result)

\* ------------------------------------------------- a rebuild, then a read
\* main rebuilds the store from a tree; once load_db has committed, the hub
\* client answers one call from the store it left.

MaxBuildDocs == 3      \* documents of a tree that has several documents

\* A document with every key the model follows; keys tells which of them the
\* YAML mapping holds.
Document(keys, capabilities, select, metadata, commands, settings, groups) ==
    [keys |-> keys, capabilities |-> capabilities, keywords |-> <<>>, select |-> select,
     metadata |-> metadata, commands |-> commands, settings |-> settings,
     settings_group_validation |-> groups]

InvalidDoc == Document({}, <<>>, <<>>, <<>>, <<>>, <<>>, <<>>)

\* The least valid document of a type
BaseDoc(ptype) ==
    CASE ptype = "extractors" ->
           Document({"namespace", "capabilities"}, <<"catalog">>, <<>>, <<>>, <<>>, <<>>, <<>>)
      [] ptype = "mappers" ->
           Document({"namespace", "capabilities"}, <<"stream-maps">>, <<>>, <<>>, <<>>, <<>>, <<>>)
      [] OTHER ->
           Document({"namespace"}, <<>>, <<>>, <<>>, <<>>, <<>>, <<>>)

StreamMetadata == [key |-> "*", value |-> [type |-> "dict", repr |-> "{replication-method: FULL_TABLE}"]]

\* An extractor document with select expressions, metadata overrides, or both
SelectDoc(with_select, with_metadata) ==
    [BaseDoc("extractors") EXCEPT
       !.keys = @ \cup (IF with_select THEN {"select"} ELSE {})
                  \cup (IF with_metadata THEN {"metadata"} ELSE {}),
       !.select = IF with_select THEN <<"*.*", "!*.secret">> ELSE <<>>,
       !.metadata = IF with_metadata THEN <<StreamMetadata>> ELSE <<>>]

\* The values of an option: 3, "3", and the date of an unquoted 2020-01-01
OptionValues ==
    {[type |-> "int", repr |-> "3"], [type |-> "str", repr |-> "3"],
     [type |-> "date", repr |-> "2020-01-01"]}
OptionLabels == {"three", None}
Options == [value : OptionValues, label : OptionLabels]

OptionsSettingOf(items) ==
    [name |-> "mode", kind |-> "options", value |-> [type |-> "null", repr |-> "null"],
     sensitive |-> None, options |-> OptionsList(items), aliases |-> <<"mode_alias">>]

StringSettingOf(name) ==
    [name |-> name, kind |-> None, value |-> [type |-> "str", repr |-> "x"],
     sensitive |-> PyTrue, options |-> NoOptions, aliases |-> <<>>]

\* A setting of another kind than options that has an options key
OptionsOnSettingOf(kind) ==
    [StringSettingOf("user") EXCEPT
       !.kind = kind,
       !.options = OptionsList(<<[value |-> [type |-> "int", repr |-> "3"], label |-> "three"]>>)]

\* The two forms of a command
StringCommand == [name |-> "run", form |-> "str", args |-> "--run", description |-> None,
                  executable |-> None]
StructuredCommands ==
    {[name |-> "test", form |-> "dict", args |-> "--test", description |-> d, executable |-> e] :
        d \in {"runs the tests", None}, e \in {"tap-test", None}}

GroupChoices ==
    {<<<<"user", "password">>, <<"token">>>>, <<<<"token">>, <<"user">>>>,
     <<<<"user">>, <<"user", "token">>>>}

\* The documents that carry one feature over a document that reads back
FeatureDocs(base) ==
    { [base EXCEPT !.keys = @ \cup {"settings"}, !.settings = <<OptionsSettingOf(<<o1, o2>>)>>] :
        o1 \in Options, o2 \in Options }
    \cup { [base EXCEPT !.keys = @ \cup {"commands"}, !.commands = <<StringCommand, c>>] :
             c \in StructuredCommands }
    \cup { [base EXCEPT !.keys = @ \cup {"settings", "settings_group_validation"},
                        !.settings = <<StringSettingOf("user"), StringSettingOf("token")>>,
                        !.settings_group_validation = g] : g \in GroupChoices }
    \cup { [base EXCEPT !.keys = @ \cup {"settings"},
                        !.settings = <<OptionsOnSettingOf(kind)>>] : kind \in {None, "integer"} }

DocsOfType(ptype) ==
    CASE ptype = "extractors" ->
           {InvalidDoc} \cup { SelectDoc(s, m) : s \in BOOLEAN, m \in BOOLEAN }
           \cup FeatureDocs(SelectDoc(TRUE, TRUE))
      [] ptype = "loaders" ->
           {InvalidDoc, BaseDoc("loaders"),
            [BaseDoc("loaders") EXCEPT !.keys = @ \cup {"capabilities"},
                                       !.capabilities = <<"about", "stream-maps">>]}
      [] ptype = "mappers" -> {InvalidDoc, BaseDoc("mappers")}
      [] OTHER -> {InvalidDoc, BaseDoc(ptype)} \cup FeatureDocs(BaseDoc(ptype))

\* The trees: one document of any type, or several documents of two
\* extractors whose dotted names synthesize the same ids.
SingleSlots ==
    {<<"extractors", "a.b", "c">>, <<"loaders", "l", "c">>, <<"mappers", "m", "c">>,
     <<"utilities", "u", "c">>, <<"files", "f", "c">>}
DottedSlots ==
    {<<"extractors", "a.b", "c">>, <<"extractors", "a.b", "d">>, <<"extractors", "a", "b.c">>}
BuildSlots == SingleSlots \cup DottedSlots
BuildDirs == { <<s[1], s[2]>> : s \in BuildSlots }

BuildTrees ==
    UNION { [{s} -> DocsOfType(s[1])] : s \in SingleSlots }
    \cup UNION { [S -> {InvalidDoc, SelectDoc(TRUE, TRUE)}] :
                   S \in { T \in SUBSET DottedSlots : Cardinality(T) \in 2..MaxBuildDocs } }

InitRebuild ==
    /\ tree \in BuildTrees
    /\ maintainers = MaintainerIds
    /\ default_variants \in [BuildDirs -> {"c", "d", "b.c", None}]
    /\ \A k \in BuildDirs :
          /\ k[2] \notin PluginsOfType(tree, k[1]) => default_variants[k] = None
          /\ default_variants[k] = "b.c" => k = <<"extractors", "a">>
          /\ default_variants[k] = "d" => k = <<"extractors", "a.b">>
    /\ pc = "maintainers"
    /\ type_idx = 1
    /\ plugin_name = None
    /\ todo_plugins = {}
    /\ todo_variants = {}
    /\ tx = EmptyStore
    /\ db = EmptyStore
    /\ errors = <<>>
    /\ response = NoResponse

ReadNames == {"a", "a.b", "l", "m", "u", "f", "unknown"}
ReadVariants == {"c", "d", "b.c"}

\* hub.get_plugin_details(VariantID.from_params(...)) on the rebuilt store;
\* the rows of required_settings come in the order the store gives them.
ReadDetails ==
    /\ pc = "done"
    /\ \E ptype \in PluginTypes, name \in ReadNames, variant \in ReadVariants,
          order \in RowOrders(db, "setting_groups") :
          LET id == VariantID_from_params(ptype, name, variant)
              r == get_plugin_details(Reordered(db, "setting_groups", order), id.id, LATEST)
          IN  response' = [op |-> "read_details", plugin_type |-> ptype, plugin_name |-> name,
                           plugin_variant |-> variant, row_order |-> order,
                           raised |-> r.raised,
                           http |-> exception_handler(r.raised), details |-> r]
    /\ pc' = "answered"
    /\ UNCHANGED building

\* hub.get_default_variant_url(PluginID.from_params(...)) on the rebuilt store
ReadDefault ==
    /\ pc = "done"
    /\ \E ptype \in PluginTypes, name \in ReadNames :
          LET id == PluginID_from_params(ptype, name)
              r == get_default_variant_url(db, id.id)
          IN  response' = [op |-> "read_default", plugin_type |-> ptype, plugin_name |-> name,
                           raised |-> r.raised, url |-> r.url]
    /\ pc' = "answered"
    /\ UNCHANGED building

NextRebuild ==
    \/ InsertMaintainers
    \/ NextType
    \/ NextPlugin
    \/ ProcessVariant
    \/ InsertPlugin
    \/ Commit
    \/ Rollback
    \/ ReadDetails
    \/ ReadDefault

SpecRebuild == InitRebuild /\ [][NextRebuild]_vars

\* ---- the claims about a rebuilt store

ReadDetailsAnswered == response.op = "read_details"

\* The document the request names, and the Variant rows that carry its id
RequestedSlot == <<response.plugin_type, response.plugin_name, response.plugin_variant>>
RequestedDbId ==
    response.plugin_type \o "." \o response.plugin_name \o "." \o response.plugin_variant
StoredVariants == SelectRows(db["plugin_variants"], "id", RequestedDbId)

\* C11 as stated: get_plugin_details raises PluginVariantNotFoundError exactly
\* when the store holds no Variant row with the requested id; it raises it for
\* a variant whose document failed validation during the rebuild, and it
\* returns a document for every Variant row that is in the store.
C11_NotFoundExactlyWhenAbsent ==
    ReadDetailsAnswered =>
      /\ (response.raised.class = "PluginVariantNotFoundError") <=> (StoredVariants = <<>>)
      /\ RequestedSlot \in FailingSlots(tree) =>
            response.raised.class = "PluginVariantNotFoundError"
      /\ StoredVariants # <<>> => response.raised = NoException

ReadDefaultAnswered == response.op = "read_default"

\* The Plugin rows the request names, the Variant rows of that plugin, and
\* the ones among them that the plugin's default_variant_id names
RequestedPluginId == response.plugin_type \o "." \o response.plugin_name
RequestedPlugins == SelectRows(db["plugins"], "id", RequestedPluginId)
VariantsOfRequested == SelectRows(db["plugin_variants"], "plugin_id", RequestedPluginId)
DefaultsOfRequested ==
    IF RequestedPlugins = <<>> THEN <<>>
    ELSE SelectRows(VariantsOfRequested, "id", RequestedPlugins[1].default_variant_id)

\* C12 as stated: for a plugin with several Variant rows whose
\* default_variant_id names variant B, get_default_variant_url returns the
\* reference path of variant B of that plugin, whatever the order of insertion;
\* it raises PluginNotFoundError when no Plugin row has the requested id.
C12_DefaultVariantUrl ==
    ReadDefaultAnswered =>
      /\ (Len(VariantsOfRequested) >= 2 /\ DefaultsOfRequested # <<>>) =>
            /\ response.raised = NoException
            /\ response.url = _build_variant_path(response.plugin_type, response.plugin_name,
                                                  DefaultsOfRequested[1].name)
      /\ RequestedPlugins = <<>> => response.raised.class = "PluginNotFoundError"

\* C13 as stated: whenever get_plugin_details returns a document for the
\* variant id built from (plugin_type, plugin_name, plugin_variant), the
\* document's name is the requested plugin_name and its variant the requested
\* plugin_variant: the id 'type.name.variant' designates one triple only.
C13_IdDesignatesOneTriple ==
    (ReadDetailsAnswered /\ response.raised = NoException) =>
      /\ response.details.name = response.plugin_name
      /\ response.details.variant = response.plugin_variant

\* The settings of kind options of a document that list at least one option
OptionsSettingsOf(definition) ==
    { i \in 1..Len(Get(definition, "settings")) :
        /\ definition.settings[i].kind = "options"
        /\ ~definition.settings[i].options.isnull
        /\ definition.settings[i].options.items # <<>> }

OptionsSlots(t) == { s \in ValidSlots(t) : OptionsSettingsOf(t[s]) # {} }

\* The settings of the returned document that carry a name
ReturnedNamed(name) ==
    SelectRows(response.details.settings, "name", name)

\* C14 as stated: for every valid setting document with kind options and a
\* non-empty options list, load_db ingests it, and get_plugin_details then
\* gives a setting of kind options whose options list has the same entries in
\* the same order.
C14_OptionsRoundTrip ==
    /\ OptionsSlots(tree) # {} => pc \notin {"raised", "aborted"}
    /\ (ReadDetailsAnswered /\ RequestedSlot \in OptionsSlots(tree)) =>
          /\ response.raised = NoException
          /\ \A i \in OptionsSettingsOf(tree[RequestedSlot]) :
                LET setting == tree[RequestedSlot].settings[i]
                IN  /\ Len(ReturnedNamed(setting.name)) = 1
                    /\ ReturnedNamed(setting.name)[1].kind = "options"
                    /\ ReturnedNamed(setting.name)[1].options = setting.options.items

\* Options whose values json.dumps can encode
EncodableOptions(definition) ==
    \A i \in OptionsSettingsOf(definition) :
       \A j \in 1..Len(definition.settings[i].options.items) :
          ~json_dumps(definition.settings[i].options.items[j].value).raised

\* The round trip for the values json.dumps encodes: the rebuild commits and
\* the options come back as they were listed.
EncodableOptionsRoundTrip ==
    /\ (\A s \in OptionsSlots(tree) : EncodableOptions(tree[s])) /\ OptionsSlots(tree) # {}
          => pc \notin {"raised", "aborted"}
    /\ (ReadDetailsAnswered /\ RequestedSlot \in OptionsSlots(tree)) =>
          /\ response.raised = NoException
          /\ \A i \in OptionsSettingsOf(tree[RequestedSlot]) :
                ReturnedNamed(tree[RequestedSlot].settings[i].name)[1].options
                  = tree[RequestedSlot].settings[i].options.items

\* C15 as stated: after any rebuild, every Plugin row in the store has at
\* least one Variant row, and its default_variant_id is the id of exactly one
\* Variant row, which belongs to that plugin.
C15_PluginHasDefaultVariant ==
    pc \in {"done", "answered"} =>
      \A i \in 1..Len(db["plugins"]) :
         LET plugin == db["plugins"][i]
             defaults == SelectRows(db["plugin_variants"], "id", plugin.default_variant_id)
         IN  /\ SelectRows(db["plugin_variants"], "plugin_id", plugin.id) # <<>>
             /\ Len(defaults) = 1
             /\ defaults[1].plugin_id = plugin.id

\* The names of the Capability rows of the Variant row the request found
StoredCapabilities == PluginVariant_capabilities(db, StoredVariants[1])

TypesWithoutCapabilities == {"utilities", "orchestrators", "transforms", "transformers", "files"}

\* A document of the type's shape with exactly the stored capabilities
ReturnsCapabilities ==
    /\ response.raised = NoException
    /\ response.details.class = ResponseClassOf(response.plugin_type)
    /\ "capabilities" \in response.details.keys
    /\ response.details.capabilities = StoredCapabilities

\* A document of the type's shape without capabilities
ReturnsNoCapabilities ==
    /\ response.raised = NoException
    /\ response.details.class = ResponseClassOf(response.plugin_type)
    /\ "capabilities" \notin response.details.keys

\* C17 as stated: for every stored variant of type loaders or mappers,
\* get_plugin_details returns a document of that type's shape whose
\* capabilities are exactly the names of the variant's Capability rows; for
\* utilities, orchestrators, transforms, transformers and files it returns a
\* document without capabilities.
C17_CapabilitiesByType ==
    (ReadDetailsAnswered /\ StoredVariants # <<>>) =>
      /\ response.plugin_type \in {"loaders", "mappers"} => ReturnsCapabilities
      /\ response.plugin_type \in TypesWithoutCapabilities => ReturnsNoCapabilities

\* The same without the mappers
CapabilitiesOfLoaders ==
    (ReadDetailsAnswered /\ StoredVariants # <<>>) =>
      /\ response.plugin_type = "loaders" => ReturnsCapabilities
      /\ response.plugin_type \in TypesWithoutCapabilities => ReturnsNoCapabilities

\* A loader with two capabilities was read
LoaderWasRead ==
    /\ ReadDetailsAnswered
    /\ response.plugin_type = "loaders"
    /\ response.raised = NoException
    /\ Len(response.details.capabilities) = 2

\* The Select and Metadata rows of the Variant row the request found
StoredSelects == SelectRows(db["selects"], "variant_id", StoredVariants[1].id)
StoredMetadata == SelectRows(db["metadata"], "variant_id", StoredVariants[1].id)

ExtractorWasFound ==
    ReadDetailsAnswered /\ StoredVariants # <<>> /\ response.plugin_type = "extractors"

\* C18 as stated: for every stored extractor variant, get_plugin_details
\* succeeds and returns an extractor document with its capabilities, its
\* select expressions and its metadata overrides; the select key is omitted,
\* never an error, when the variant has no Select rows, and likewise the
\* metadata key when it has no Metadata rows.
C18_ExtractorDocument ==
    ExtractorWasFound =>
      /\ response.raised = NoException
      /\ response.details.class = "ExtractorResponse"
      /\ response.details.capabilities = StoredCapabilities
      /\ IF StoredSelects = <<>> THEN "select" \notin response.details.keys
         ELSE response.details.select =
                 ListValue([i \in 1..Len(StoredSelects) |-> StoredSelects[i].expression])
      /\ IF StoredMetadata = <<>> THEN "metadata" \notin response.details.keys
         ELSE response.details.metadata =
                 ListValue([i \in 1..Len(StoredMetadata) |->
                              [key |-> StoredMetadata[i].key, value |-> StoredMetadata[i].value]])

\* The same for the extractors that have rows of both kinds
ExtractorWithSelectAndMetadata ==
    (ExtractorWasFound /\ StoredSelects # <<>> /\ StoredMetadata # <<>>) =>
      /\ response.raised = NoException
      /\ response.details.class = "ExtractorResponse"
      /\ response.details.capabilities = StoredCapabilities
      /\ response.details.select =
            ListValue([i \in 1..Len(StoredSelects) |-> StoredSelects[i].expression])
      /\ response.details.metadata =
            ListValue([i \in 1..Len(StoredMetadata) |->
                         [key |-> StoredMetadata[i].key, value |-> StoredMetadata[i].value]])

\* An extractor that has a row of one kind and none of the other never reads
ExtractorWithoutRowsRaises ==
    (ExtractorWasFound /\ (StoredSelects = <<>> \/ StoredMetadata = <<>>)) =>
      response.raised = ValidationError

\* The commands of the document the request names, a valid one that was read
CommandsOfRequested == Get(tree[RequestedSlot], "commands")

CommandsWereRead ==
    /\ ReadDetailsAnswered
    /\ RequestedSlot \in ValidSlots(tree)
    /\ CommandsOfRequested # <<>>

\* The structured object of a command, as ingested
SameStructure(returned, command) ==
    /\ returned.form = "Command"
    /\ returned.args = command.args
    /\ returned.description = command.description
    /\ returned.executable = command.executable

\* C19 as stated: commands keep their form through ingest and read: a command
\* ingested as a bare string of args is returned as a bare string equal to its
\* args, and a command ingested in the structured form is returned as a
\* structured object with the same args, description and executable, keyed by
\* the command name.
C19_CommandsKeepTheirForm ==
    CommandsWereRead =>
      /\ response.raised = NoException
      /\ \A i \in 1..Len(CommandsOfRequested) :
            LET command == CommandsOfRequested[i]
            IN  /\ command.name \in DOMAIN response.details.commands
                /\ IF command.form = "str"
                   THEN /\ response.details.commands[command.name].form = "str"
                        /\ response.details.commands[command.name].args = command.args
                   ELSE SameStructure(response.details.commands[command.name], command)

\* What is returned: every command as a structured object under its name, the
\* bare string with its args and neither description nor executable
CommandsComeBackStructured ==
    CommandsWereRead =>
      /\ response.raised = NoException
      /\ DOMAIN response.details.commands =
            { CommandsOfRequested[i].name : i \in 1..Len(CommandsOfRequested) }
      /\ \A i \in 1..Len(CommandsOfRequested) :
            LET command == CommandsOfRequested[i]
            IN  SameStructure(response.details.commands[command.name],
                              IF command.form = "str"
                              THEN [command EXCEPT !.description = None, !.executable = None]
                              ELSE command)

\* The RequiredSetting rows of the Variant row the request found, their
\* group ids, and the setting names stored with a group id
StoredGroups == SelectRows(db["setting_groups"], "variant_id", StoredVariants[1].id)
StoredGroupIds == { StoredGroups[i].group_id : i \in 1..Len(StoredGroups) }
NamesOfGroup(group_id) ==
    { StoredGroups[i].setting_name : i \in { j \in 1..Len(StoredGroups) :
                                                StoredGroups[j].group_id = group_id } }

\* The place of a group id in ascending order
Rank(group_id) == Cardinality({ g \in StoredGroupIds : g < group_id }) + 1

GroupsWereRead ==
    /\ ReadDetailsAnswered
    /\ StoredVariants # <<>>
    /\ response.raised = NoException
    /\ StoredGroups # <<>>

SeqToSet(seq) == { seq[i] : i \in 1..Len(seq) }

\* C20 as stated: the settings_group_validation returned by get_plugin_details
\* lists the groups in ascending group_id order, each group holding exactly
\* the setting names stored with that group_id, whatever the order in which
\* the store returns the RequiredSetting rows.
C20_GroupsInGroupIdOrder ==
    GroupsWereRead =>
      LET groups == response.details.settings_group_validation
      IN  /\ Len(groups) = Cardinality(StoredGroupIds)
          /\ \A g \in StoredGroupIds :
                /\ SeqToSet(groups[Rank(g)]) = NamesOfGroup(g)
                /\ Len(groups[Rank(g)]) = Cardinality(NamesOfGroup(g))

\* The order of the rows as they were inserted
InsertionOrder == [i \in 1..Len(db["setting_groups"]) |-> i]

\* What is returned: the stored groups, each with exactly its names, whatever
\* the order of the rows; in ascending group_id order when the rows come in
\* the order of their insertion.
GroupsInRowOrder ==
    GroupsWereRead =>
      LET groups == response.details.settings_group_validation
      IN  /\ Len(groups) = Cardinality(StoredGroupIds)
          /\ { SeqToSet(groups[i]) : i \in 1..Len(groups) }
                = { NamesOfGroup(g) : g \in StoredGroupIds }
          /\ response.row_order = InsertionOrder =>
                \A g \in StoredGroupIds : SeqToSet(groups[Rank(g)]) = NamesOfGroup(g)

\* The documents of the tree one of whose settings has an options key though
\* its kind is absent or is not options
CarriesOptionsOfAnotherKind(doc) ==
    /\ "settings" \in doc.keys
    /\ \E i \in 1..Len(doc.settings) :
          /\ ~doc.settings[i].options.isnull
          /\ _kind_discriminator(doc.settings[i]) # "options"
OptionsMisplacedSlots == { s \in DOMAIN tree : CarriesOptionsOfAnotherKind(tree[s]) }

ErrorsOfSlot(s) ==
    { i \in 1..Len(errors) : errors[i].plugin_name = s[2] /\ errors[i].variant = s[3] }

\* C22 as stated: a setting entry that carries a field of another kind, such
\* as options on a setting whose kind is absent or is not options, fails
\* validation: its variant document yields a LoadError, and no Variant or
\* Setting row is stored for it.
C22_FieldOfAnotherKindFails ==
    pc \in {"done", "answered"} =>
      \A s \in OptionsMisplacedSlots :
         /\ ErrorsOfSlot(s) # {}
         /\ SelectRows(db["plugin_variants"], "id", VariantId(PluginId(s[1], s[2]), s[3])) = <<>>
         /\ SelectRows(db["settings"], "variant_id", VariantId(PluginId(s[1], s[2]), s[3])) = <<>>

\* What the rebuild does with such a document: it validates, the options are
\* dropped, and the Setting row is stored with options NULL.
MisplacedOptionsAreDropped ==
    pc \in {"done", "answered"} =>
      \A s \in OptionsMisplacedSlots :
         /\ ErrorsOfSlot(s) = {}
         /\ Len(SelectRows(db["plugin_variants"], "id", VariantId(PluginId(s[1], s[2]), s[3]))) = 1
         /\ LET rows == SelectRows(db["settings"], "variant_id",
                                   VariantId(PluginId(s[1], s[2]), s[3]))
            IN  /\ Len(rows) = 1
                /\ rows[1].options = NoOptions

\* The RequiredSetting rows whose setting_id is the id of a Setting row of the
\* same variant
ResolvedRequiredSettings ==
    { i \in 1..Len(db["setting_groups"]) :
        \E j \in 1..Len(db["settings"]) :
           /\ db["settings"][j].id = db["setting_groups"][i].setting_id
           /\ db["settings"][j].variant_id = db["setting_groups"][i].variant_id
           /\ db["settings"][j].name = db["setting_groups"][i].setting_name }

\* C27 as stated: every RequiredSetting row written by load_db references a
\* Setting row that exists for the same variant; each name of a document's
\* settings_group_validation is the name of a setting the document declares,
\* and setting_id is never a dangling reference.
C27_RequiredSettingsExist ==
    pc \in {"done", "answered"} =>
      ResolvedRequiredSettings = 1..Len(db["setting_groups"])

\* The names of the settings a document declares
DeclaredSettingNames(doc) ==
    { Get(doc, "settings")[i].name : i \in 1..Len(Get(doc, "settings")) }

\* What load_db writes: one RequiredSetting row for every name of every group
\* of a valid document, declared or not; the row resolves exactly when the
\* document declares a setting of that name.
RequiredSettingsFollowTheDocument ==
    pc \in {"done", "answered"} =>
      \A s \in ValidSlots(tree) :
         \A g \in 1..Len(Get(tree[s], "settings_group_validation")) :
            \A k \in 1..Len(Get(tree[s], "settings_group_validation")[g]) :
               LET name == Get(tree[s], "settings_group_validation")[g][k]
                   row == RequiredSettingRow(VariantId(PluginId(s[1], s[2]), s[3]), name, g - 1)
               IN  \E i \in 1..Len(db["setting_groups"]) :
                      /\ db["setting_groups"][i] = row
                      /\ (i \in ResolvedRequiredSettings)
                            <=> (name \in DeclaredSettingNames(tree[s]))

\* ------------------------------------------------- the application and its ETag
\* A request goes through ETagMiddleware to the router; the dependency
\* check_etag of the application runs before the endpoint.  A header value is
\* [present, quoted, prefix, token], the token a sequence of characters.

UppercaseLetters ==
    {"A", "B", "C", "D", "E", "F", "G", "H", "I", "J", "K", "L", "M",
     "N", "O", "P", "Q", "R", "S", "T", "U", "V", "W", "X", "Y", "Z"}

Compatibility == {"PRE_3_3", "PRE_3_9", "LATEST"}

\* A get_compatibility whose LATEST begins at (3, 8)
get_compatibility_From_3_8(ua) ==
    LET version == get_version_tuple(ua)
    IN  IF ~Lt(version, <<3, 8>>) THEN "LATEST"
        ELSE IF ~Lt(version, <<3, 3>>) THEN "PRE_3_9"
        ELSE "PRE_3_3"

\* get_compatibility: the level of the client version, tuples compared in order
get_compatibility(ua) ==
    LET version == get_version_tuple(ua)
    IN  IF ~Lt(version, <<3, 9>>) THEN "LATEST"
        ELSE IF ~Lt(version, <<3, 3>>) THEN "PRE_3_9"
        ELSE "PRE_3_3"

NoHeaderValue == [present |-> FALSE, quoted |-> FALSE, prefix |-> "", token |-> <<>>]

\* f'"etag-{...}"'
QuotedEtag(token) == [present |-> TRUE, quoted |-> TRUE, prefix |-> "etag-", token |-> token]

\* ETAGS: one value per level, each of its own uuid4
ETAGS ==
    [c \in Compatibility |->
       CASE c = "PRE_3_3" -> QuotedEtag(<<"a", "1">>)
         [] c = "PRE_3_9" -> QuotedEtag(<<"a", "2">>)
         [] c = "LATEST"  -> QuotedEtag(<<"b", "-">>)]

get_etag(ua) == ETAGS[get_compatibility(ua)]

\* Header(pattern=r'^"etag-[A-Za-z0-9-]+"$')
IfNoneMatch_pattern(if_none_match) ==
    /\ if_none_match.quoted
    /\ if_none_match.prefix = "etag-"
    /\ Len(if_none_match.token) >= 1
    /\ \A i \in 1..Len(if_none_match.token) :
          if_none_match.token[i] \in UppercaseLetters \cup LowercaseLetters \cup DigitChars \cup {"-"}

\* check_etag: the parameter is validated first (422 when the header is there
\* and does not match the pattern); the function raises HTTPException 304 when
\* the header is the ETag of the request.
check_etag(ua, if_none_match) ==
    IF if_none_match.present /\ ~IfNoneMatch_pattern(if_none_match) THEN 422
    ELSE IF if_none_match = get_etag(ua) THEN 304
    ELSE 200

\* ETagMiddleware.dispatch around the application: response = await
\* call_next(request); response.headers["ETag"] = get_etag(request).  An
\* exception no handler takes leaves call_next, and the 500 answer is made
\* outside the middleware.  endpoint is [status_code, body], what the endpoint
\* and the exception handlers answer when the endpoint runs.
ETagMiddleware_dispatch(ua, if_none_match, endpoint) ==
    LET checked == check_etag(ua, if_none_match)
    IN  CASE checked = 422 ->
               [status_code |-> 422, etag |-> get_etag(ua), body |-> "detail"]
          [] checked = 304 ->
               [status_code |-> 304, etag |-> get_etag(ua), body |-> ""]
          [] checked = 200 /\ endpoint.status_code = 500 ->
               [status_code |-> 500, etag |-> NoHeaderValue, body |-> "Internal Server Error"]
          [] OTHER ->
               [status_code |-> endpoint.status_code, etag |-> get_etag(ua), body |-> endpoint.body]

\* What an endpoint answers: its value as JSON, a redirect, or the answer of
\* the exception handler
Answer(raised, ok_status) ==
    IF raised = NoException
    THEN [status_code |-> ok_status, body |-> IF ok_status = 307 THEN "" ELSE "json"]
    ELSE [status_code |-> exception_handler(raised).status_code,
          body |-> IF exception_handler(raised).status_code = 500 THEN "" ELSE "detail"]

\* The served store: the extractor of the tests and a mapper
MockMapper == PluginRow("mappers", "m", "c")
MockMapperVariant == VariantRow(MockMapper.id, "c", None)

EtagStore ==
    [FixtureStore EXCEPT
       !["plugins"] = @ \o <<MockMapper>>,
       !["plugin_variants"] = @ \o <<MockMapperVariant>>,
       !["capabilities"] = @ \o <<CapabilityRow(MockMapperVariant.id, "stream-maps")>>]

EtagAlphabet == {"a", "b", "1", "2", "-", "_"}
MaxToken == 2          \* characters of the token of an If-None-Match header

\* No header; a quoted etag- value with any token; and the token of an ETag
\* of the server unquoted, or with another prefix
IfNoneMatchValues ==
    {NoHeaderValue}
    \cup { [present |-> TRUE, quoted |-> TRUE, prefix |-> "etag-", token |-> t] :
             t \in UNION { [1..n -> EtagAlphabet] : n \in 0..MaxToken } }
    \cup { [present |-> TRUE, quoted |-> q, prefix |-> x, token |-> <<"a", "1">>] :
             q \in BOOLEAN, x \in {"etag-", "W/etag-", ""} }

EtagUserAgents ==
    {NoHeader}
    \cup { [present |-> TRUE, product |-> "Meltano/", rest |-> r] :
             r \in {<<"3", ".", "2">>, <<"3", ".", "3">>, <<"3", ".", "8">>,
                    <<"3", ".", "9">>, <<"a">>} }
    \cup {[present |-> TRUE, product |-> "Mozilla/", rest |-> <<"3", ".", "2">>]}

EtagTypes == {"extractors", "mappers", "bogus-type"}
EtagNames == {"tap-mock", "m", "unknown"}
EtagVariants == {"singer", "c"}

InitEtag ==
    /\ db = EtagStore
    /\ Serving

\* One request through the application, and what is seen of it
Request(op, path, ua, if_none_match, endpoint, document) ==
    [op |-> "http", route |-> op, path |-> path, user_agent |-> ua,
     if_none_match |-> if_none_match, endpoint |-> endpoint, document |-> document,
     http |-> ETagMiddleware_dispatch(ua, if_none_match, endpoint)]

\* GET /meltano/api/v1/plugins/{plugin_type}/{plugin_name}--{plugin_variant}
http_get_plugin_variant ==
    /\ pc = "serving"
    /\ \E ua \in EtagUserAgents, if_none_match \in IfNoneMatchValues,
          ptype \in EtagTypes, name \in EtagNames, variant \in EtagVariants :
          LET id == VariantID_from_params(ptype, name, variant)
              r == get_plugin_details(db, id.id, get_version_tuple(ua))
              raised == IF id.raised # NoException THEN id.raised ELSE r.raised
          IN  response' = Request("get_plugin_variant", <<ptype, name, variant>>, ua,
                                  if_none_match, Answer(raised, 200),
                                  IF raised = NoException THEN r ELSE NoDetails(raised))
    /\ pc' = "answered"
    /\ UNCHANGED building

\* GET /meltano/api/v1/plugins/{plugin_type}/index
http_get_type_index ==
    /\ pc = "serving"
    /\ \E ua \in EtagUserAgents, if_none_match \in IfNoneMatchValues, ptype \in EtagTypes :
          response' = Request("get_plugin_type_index", <<ptype>>, ua, if_none_match,
                              Answer(get_plugin_type_index(db, ptype).raised, 200),
                              get_plugin_type_index(db, ptype).result)
    /\ pc' = "answered"
    /\ UNCHANGED building

\* GET /meltano/api/v1/plugins/{plugin_type}/{plugin_name}/default
http_get_default_plugin ==
    /\ pc = "serving"
    /\ \E ua \in EtagUserAgents, if_none_match \in IfNoneMatchValues,
          ptype \in EtagTypes, name \in EtagNames :
          LET id == PluginID_from_params(ptype, name)
              r == get_default_variant_url(db, id.id)
              raised == IF id.raised # NoException THEN id.raised ELSE r.raised
          IN  response' = Request("get_default_plugin", <<ptype, name>>, ua, if_none_match,
                                  Answer(raised, 307), <<>>)
    /\ pc' = "answered"
    /\ UNCHANGED building

\* GET /meltano/api/v1/plugins/stats
http_stats ==
    /\ pc = "serving"
    /\ \E ua \in EtagUserAgents, if_none_match \in IfNoneMatchValues :
          response' = Request("get_plugin_stats", <<>>, ua, if_none_match,
                              Answer(NoException, 200), get_plugin_stats(db))
    /\ pc' = "answered"
    /\ UNCHANGED building

NextEtag ==
    \/ http_get_plugin_variant
    \/ http_get_type_index
    \/ http_get_default_plugin
    \/ http_stats

SpecEtag == InitEtag /\ [][NextEtag]_vars

HttpAnswered == response.op = "http"

\* C16 as stated: every response carries an ETag header; a request whose
\* If-None-Match header equals the ETag the server sends for that request is
\* answered 304 Not Modified with an empty body; a request without that header
\* or with another well-formed value is answered normally.
C16_ETagOnEveryResponse ==
    HttpAnswered =>
      /\ response.http.etag = get_etag(response.user_agent)
      /\ response.if_none_match = get_etag(response.user_agent) =>
            (response.http.status_code = 304 /\ response.http.body = "")
      /\ (/\ response.if_none_match # get_etag(response.user_agent)
          /\ ~response.if_none_match.present \/ IfNoneMatch_pattern(response.if_none_match)) =>
            /\ response.http.status_code = response.endpoint.status_code
            /\ response.http.status_code # 304

\* The same for the answers the application makes itself, every status but 500
ETagOnHandledResponses ==
    (HttpAnswered /\ response.http.status_code # 500) =>
      /\ response.http.etag = get_etag(response.user_agent)
      /\ response.if_none_match = get_etag(response.user_agent) =>
            (response.http.status_code = 304 /\ response.http.body = "")
      /\ (/\ response.if_none_match # get_etag(response.user_agent)
          /\ ~response.if_none_match.present \/ IfNoneMatch_pattern(response.if_none_match)) =>
            /\ response.http.status_code = response.endpoint.status_code
            /\ response.http.status_code # 304

VariantAnswered == HttpAnswered /\ response.route = "get_plugin_variant"

\* What the endpoint answers to the same path for another User-Agent
DocumentFor(ua) ==
    LET id == VariantID_from_params(response.path[1], response.path[2], response.path[3])
        r == get_plugin_details(db, id.id, get_version_tuple(ua))
    IN  IF id.raised # NoException THEN NoDetails(id.raised)
        ELSE IF r.raised # NoException THEN NoDetails(r.raised)
        ELSE r

MaxTop == 2            \* the count of a request for the top maintainers

MaintainerNotFoundError(maintainer_id) ==
    [class |-> "MaintainerNotFoundError", base |-> "NotFoundError",
     args |-> "Maintainer '" \o maintainer_id \o "' not found"]

\* Maintainer.plugins: the Variant rows whose name is the maintainer's id
Maintainer_plugins(store, maintainer) ==
    SelectRows(store["plugin_variants"], "name", maintainer.id)

\* {v.plugin.name: _build_variant_path(...) for v in variants}: a later
\* variant of a plugin name takes the key of an earlier one.
RECURSIVE LinksOf(_, _, _)
LinksOf(store, variants, links) ==
    IF variants = <<>> THEN links
    ELSE LET v == variants[1]
             plugin == SelectRows(store["plugins"], "id", v.plugin_id)[1]
         IN  LinksOf(store, Tail(variants),
                     (plugin.name :> _build_variant_path(plugin.plugin_type, plugin.name, v.name))
                        @@ links)

get_maintainer(store, maintainer_id) ==
    LET found == SelectRows(store["maintainers"], "id", maintainer_id)
    IN  IF found = <<>>
        THEN [raised |-> MaintainerNotFoundError(maintainer_id), id |-> None, links |-> <<>>]
        ELSE [raised |-> NoException, id |-> found[1].id,
              links |-> LinksOf(store, Maintainer_plugins(store, found[1]), <<>>)]

\* select id, count(plugin_variants.id) from maintainers join plugin_variants
\* on plugin_variants.name = maintainers.id group by maintainers.id
PluginCounts(store) ==
    LET joined == { i \in 1..Len(store["maintainers"]) :
                      Maintainer_plugins(store, store["maintainers"][i]) # <<>> }
    IN  { [id |-> store["maintainers"][i].id,
           plugin_count |-> Len(Maintainer_plugins(store, store["maintainers"][i]))] :
          i \in joined }

\* get_top_maintainers: the groups by plugin_count descending, the first n of
\* them; the order of groups of one count is the store's.
get_top_maintainers(store, n) ==
    LET groups == SetToSeq(PluginCounts(store))
        sorted == { [i \in 1..Len(groups) |-> groups[order[i]]] :
                      order \in Permutations(1..Len(groups)) }
    IN  { SubSeq(rows, 1, IF n < Len(rows) THEN n ELSE Len(rows)) :
            rows \in { r \in sorted :
                         \A i \in 1..Len(r), j \in 1..Len(r) :
                            i < j => r[i].plugin_count >= r[j].plugin_count } }

\* The served stores: plugins, two of them of one name under two types, each
\* with the variants of some maintainers, and some Maintainer rows.
MaintainerPlugins ==
    {<<"extractors", "tap-a">>, <<"utilities", "dbt">>, <<"transformers", "dbt">>}
MaintainerNames == {"c", "d"}

MaintainerStores ==
    { [IndexStore(shape) EXCEPT
         !["maintainers"] = [i \in 1..Len(SetToSeq(ids)) |-> MaintainerRow(SetToSeq(ids)[i])]] :
        shape \in [MaintainerPlugins -> [default : {"c"}, variants : SUBSET MaintainerNames]],
        ids \in SUBSET (MaintainerNames \cup {"e"}) }

InitMaintainers ==
    /\ db \in MaintainerStores
    /\ Serving

\* GET /maintainers/{maintainer}
http_get_maintainer ==
    /\ pc = "serving"
    /\ \E maintainer \in MaintainerNames \cup {"e", "unknown"} :
          LET r == get_maintainer(db, maintainer)
          IN  response' = [op |-> "get_maintainer", maintainer |-> maintainer,
                           raised |-> r.raised, http |-> exception_handler(r.raised),
                           links |-> r.links]
    /\ pc' = "answered"
    /\ UNCHANGED building

\* GET /maintainers/top?count=n
http_get_top_maintainers ==
    /\ pc = "serving"
    /\ \E n \in 1..MaxTop :
          \E rows \in get_top_maintainers(db, n) :
             response' = [op |-> "get_top_maintainers", count |-> n,
                          raised |-> NoException, http |-> exception_handler(NoException),
                          result |-> rows]
    /\ pc' = "answered"
    /\ UNCHANGED building

NextMaintainers ==
    \/ http_get_maintainer
    \/ http_get_top_maintainers

SpecMaintainers == InitMaintainers /\ [][NextMaintainers]_vars

\* The Variant rows whose name is the id
VariantsNamed(id) == SelectRows(db["plugin_variants"], "name", id)

\* C30 as stated: for every maintainer of the store, get_maintainer(id).links
\* has one entry for each Variant row whose name is the maintainer's id, and
\* the number of links is the plugin_count get_top_maintainers reports for the
\* maintainer, also when the maintainer has variants of plugins of one name
\* under different plugin types.
C30_LinksCountIsPluginCount ==
    /\ (response.op = "get_maintainer" /\ response.raised = NoException) =>
          /\ Cardinality(DOMAIN response.links) = Len(VariantsNamed(response.maintainer))
          /\ \A group \in PluginCounts(db) :
                group.id = response.maintainer =>
                   group.plugin_count = Cardinality(DOMAIN response.links)
    /\ response.op = "get_top_maintainers" =>
          \A i \in 1..Len(response.result) :
             response.result[i].plugin_count
               = Cardinality(DOMAIN get_maintainer(db, response.result[i].id).links)

\* What holds: plugin_count is the number of Variant rows of the maintainer's
\* name, and links has one entry for each different plugin name among them.
LinksCountIsPluginNames ==
    /\ (response.op = "get_maintainer" /\ response.raised = NoException) =>
          DOMAIN response.links
            = { SelectRows(db["plugins"], "id", VariantsNamed(response.maintainer)[i].plugin_id)[1].name :
                  i \in 1..Len(VariantsNamed(response.maintainer)) }
    /\ response.op = "get_top_maintainers" =>
          \A i \in 1..Len(response.result) :
             response.result[i].plugin_count = Len(VariantsNamed(response.result[i].id))

====
